---------------------------- MODULE Spec2Model ----------------------------
(***************************************************************************)
(* Job Hunt Assistant: the extraction core of src/lib/extractor.js         *)
(* (JobExtractor) as a state machine, followed by the Storage helper, the  *)
(* background service worker and the content script that use it.           *)
(*                                                                         *)
(* A text is a sequence of one-character strings, so that trim,            *)
(* toLowerCase, includes and length are computed and not assumed.  The     *)
(* document is a sequence of elements in document order; an element has a  *)
(* tag, the set of the program's selector strings it matches (the CSS      *)
(* matching itself is the browser's), and its textContent.                 *)
(***************************************************************************)
EXTENDS Integers, Sequences, FiniteSets, TLC

VARIABLES
  url,                 \* the tab's address: an index of URLs
  doc,                 \* the live document: a sequence of indexes of ElementPool
  _techKeywordsLower,  \* JobExtractor._techKeywordsLower; <<>> stands for null
  pc,                  \* position of the call in flight
  op,                  \* the public method that was called
  maxAttempts,         \* maxAttempts of the waitForLinkedInRender call in progress
  attempt,             \* its loop variable
  probeLog,            \* one entry per tick: whether a readiness probe held
  delays,              \* number of setTimeout(resolve, delay) calls made
  waitResult,          \* outcome of waitForLinkedInRender
  result,              \* what extract() resolved to: <<>> is null, <<r>> a record
  trace,               \* what extract() did: waiter started, fallbacks run, error caught
  arg,                 \* argument of a direct call of a helper
  ret,                 \* value a direct call of a helper returned
  other,               \* a second extract() call in flight: its position
  jobs,                \* chrome.storage.local: the value stored under 'jobs'
  calls,               \* the Storage calls in flight, by caller
  now,                 \* Date.now(), in milliseconds
  handler,             \* the background's handleAnalyzeJob call in flight
  content,             \* the content script: its variables, timers and handler
  channel,             \* the messages the content script sent to the background
  auto                 \* the background's auto-analysis: analyzedUrls, the
                       \* tabs.onUpdated listeners in flight, timers, messages

\* the variables of JobExtractor and its page
extractorVars == <<url, doc, _techKeywordsLower, pc, op, maxAttempts, attempt, probeLog,
                   delays, waitResult, result, trace, arg, ret, other>>

\* the variables of Storage
storageVars == <<jobs, calls, now>>

\* the variables of the background and content scripts
scriptVars == <<handler, content, channel, auto>>

\* the variables of the rest of the extension
appVars == <<storageVars, scriptVars>>

\* what a step of Storage leaves alone
notStorageVars == <<extractorVars, scriptVars>>

\* what a step of handleAnalyzeJob leaves alone, Storage apart
notHandlerVars == <<extractorVars, content, channel, auto>>

\* what a step of the content script leaves alone, the clock apart
notContentVars == <<extractorVars, jobs, calls, handler, auto>>

\* what a step of the auto-analysis leaves alone
notAutoVars == <<extractorVars, storageVars, handler, content, channel>>

vars == <<extractorVars, appVars>>

-----------------------------------------------------------------------------
(* Strings *)

UpperAlpha ==
  <<"A", "B", "C", "D", "E", "F", "G", "H", "I", "J", "K", "L", "M",
    "N", "O", "P", "Q", "R", "S", "T", "U", "V", "W", "X", "Y", "Z">>

LowerAlpha ==
  <<"a", "b", "c", "d", "e", "f", "g", "h", "i", "j", "k", "l", "m",
    "n", "o", "p", "q", "r", "s", "t", "u", "v", "w", "x", "y", "z">>

UpperSet == {UpperAlpha[i] : i \in DOMAIN UpperAlpha}

WhiteSpace == {" ", "\n", "\t"}

\* String.prototype.toLowerCase, one character
toLowerCaseChar(c) ==
  IF c \in UpperSet
  THEN LowerAlpha[CHOOSE i \in DOMAIN UpperAlpha : UpperAlpha[i] = c]
  ELSE c

\* String.prototype.toLowerCase (SubSeq makes the result a tuple, built once)
toLowerCase(t) == SubSeq([i \in 1..Len(t) |-> toLowerCaseChar(t[i])], 1, Len(t))

\* String.prototype.includes
includes(t, k) ==
  \E i \in 1..(Len(t) - Len(k) + 1) : \A j \in 1..Len(k) : t[i + j - 1] = k[j]

\* index of the first character of t from i on that is not white space
RECURSIVE trimStart(_, _)
trimStart(t, i) ==
  IF i > Len(t) \/ t[i] \notin WhiteSpace THEN i ELSE trimStart(t, i + 1)

\* index of the last character of t up to i that is not white space
RECURSIVE trimEnd(_, _)
trimEnd(t, i) ==
  IF i < 1 \/ t[i] \notin WhiteSpace THEN i ELSE trimEnd(t, i - 1)

\* String.prototype.trim
trim(t) == SubSeq(t, trimStart(t, 1), trimEnd(t, Len(t)))

\* text.split('\n').length
lineCount(t) == Cardinality({i \in 1..Len(t) : t[i] = "\n"}) + 1

\* undefined / null given where a string is expected
Absent == <<"<undefined>">>

\* !text
falsy(text) == text = Absent \/ text = <<>>

-----------------------------------------------------------------------------
(* KeywordMatcher: _techKeywords, _getTechKeywordsLower, extractTechStack *)

_techKeywords ==
  <<
    <<"J", "a", "v", "a", "S", "c", "r", "i", "p", "t">>,
    <<"T", "y", "p", "e", "S", "c", "r", "i", "p", "t">>,
    <<"P", "y", "t", "h", "o", "n">>,
    <<"J", "a", "v", "a">>,
    <<"C", "+", "+">>,
    <<"C", "#">>,
    <<"R", "u", "b", "y">>,
    <<"G", "o">>,
    <<"R", "u", "s", "t">>,
    <<"P", "H", "P">>,
    <<"S", "w", "i", "f", "t">>,
    <<"K", "o", "t", "l", "i", "n">>,
    <<"R", "e", "a", "c", "t">>,
    <<"V", "u", "e">>,
    <<"A", "n", "g", "u", "l", "a", "r">>,
    <<"S", "v", "e", "l", "t", "e">>,
    <<"N", "e", "x", "t", ".", "j", "s">>,
    <<"N", "u", "x", "t">>,
    <<"H", "T", "M", "L">>,
    <<"C", "S", "S">>,
    <<"T", "a", "i", "l", "w", "i", "n", "d">>,
    <<"B", "o", "o", "t", "s", "t", "r", "a", "p">>,
    <<"N", "o", "d", "e", ".", "j", "s">>,
    <<"E", "x", "p", "r", "e", "s", "s">>,
    <<"D", "j", "a", "n", "g", "o">>,
    <<"F", "l", "a", "s", "k">>,
    <<"F", "a", "s", "t", "A", "P", "I">>,
    <<"S", "p", "r", "i", "n", "g">>,
    <<"R", "a", "i", "l", "s">>,
    <<"A", "S", "P", ".", "N", "E", "T">>,
    <<"P", "o", "s", "t", "g", "r", "e", "S", "Q", "L">>,
    <<"M", "y", "S", "Q", "L">>,
    <<"M", "o", "n", "g", "o", "D", "B">>,
    <<"R", "e", "d", "i", "s">>,
    <<"E", "l", "a", "s", "t", "i", "c", "s", "e", "a", "r", "c", "h">>,
    <<"D", "y", "n", "a", "m", "o", "D", "B">>,
    <<"C", "a", "s", "s", "a", "n", "d", "r", "a">>,
    <<"A", "W", "S">>,
    <<"A", "z", "u", "r", "e">>,
    <<"G", "C", "P">>,
    <<"D", "o", "c", "k", "e", "r">>,
    <<"K", "u", "b", "e", "r", "n", "e", "t", "e", "s">>,
    <<"T", "e", "r", "r", "a", "f", "o", "r", "m">>,
    <<"J", "e", "n", "k", "i", "n", "s">>,
    <<"G", "i", "t", "H", "u", "b", " ", "A", "c", "t", "i", "o", "n", "s">>,
    <<"G", "r", "a", "p", "h", "Q", "L">>,
    <<"R", "E", "S", "T">>,
    <<"A", "P", "I">>,
    <<"G", "i", "t">>,
    <<"L", "i", "n", "u", "x">>,
    <<"C", "I", "/", "C", "D">>,
    <<"M", "i", "c", "r", "o", "s", "e", "r", "v", "i", "c", "e", "s">>,
    <<"A", "g", "i", "l", "e">>,
    <<"S", "c", "r", "u", "m">>
  >>

\* this._techKeywords.map(tech => tech.toLowerCase())
techKeywordsMapLower == [i \in 1..Len(_techKeywords) |-> toLowerCase(_techKeywords[i])]

\* _getTechKeywordsLower that caches the list as written
_getTechKeywordsLowerAsWritten(cache) ==
  IF cache = <<>> THEN _techKeywords ELSE cache

\* _getTechKeywordsLower: the cache after the call (it is also the value returned)
_getTechKeywordsLower(cache) ==
  IF cache = <<>> THEN techKeywordsMapLower ELSE cache

\* [...new Set(foundTech)]
RECURSIVE dedupe(_)
dedupe(s) ==
  IF s = <<>> THEN <<>>
  ELSE LET init == dedupe(SubSeq(s, 1, Len(s) - 1))
           x    == s[Len(s)]
       IN  IF \E i \in 1..Len(init) : init[i] = x THEN init ELSE Append(init, x)

\* techLoop with the keyword compared as written in the list, not lowercased
RECURSIVE techLoopKeywordCase(_, _, _, _)
techLoopKeywordCase(i, lowerText, lowerKeywords, foundTech) ==
  IF i > Len(_techKeywords) THEN foundTech
  ELSE techLoopKeywordCase(i + 1, lowerText, lowerKeywords,
                           IF includes(lowerText, _techKeywords[i])
                           THEN Append(foundTech, _techKeywords[i])
                           ELSE foundTech)

\* the for loop of extractTechStack, from index i on
RECURSIVE techLoop(_, _, _, _)
techLoop(i, lowerText, lowerKeywords, foundTech) ==
  IF i > Len(_techKeywords) THEN foundTech
  ELSE techLoop(i + 1, lowerText, lowerKeywords,
                IF includes(lowerText, lowerKeywords[i])
                THEN Append(foundTech, _techKeywords[i])
                ELSE foundTech)

-----------------------------------------------------------------------------
(* The document accessor *)

\* the simple selectors of a selector list (the comma-separated groups the
\* program queries; any other selector string is one simple selector)
selectorParts(sel) ==
  CASE sel = "h1, h2, h3, p" -> {"h1", "h2", "h3", "p"}
    [] sel = "div, article, section" -> {"div", "article", "section"}
    [] sel = ".jobs-unified-top-card, .job-details-jobs-unified-top-card, .jobs-details__main-content" ->
         {".jobs-unified-top-card", ".job-details-jobs-unified-top-card",
          ".jobs-details__main-content"}
    [] sel = ".jobs-description, .jobs-box__html-content, .show-more-less-html__markup, .jobs-description-content__text" ->
         {".jobs-description", ".jobs-box__html-content", ".show-more-less-html__markup",
          ".jobs-description-content__text"}
    [] sel = ".scaffold-layout__detail, .scaffold-layout--reflow" ->
         {".scaffold-layout__detail", ".scaffold-layout--reflow"}
    [] sel = "#content, .content" -> {"#content", ".content"}
    [] sel = ".content, .section-wrapper" -> {".content", ".section-wrapper"}
    [] sel = ".location, .posting-categories .location" ->
         {".location", ".posting-categories .location"}
    [] OTHER -> {sel}

\* Element.matches for one simple selector: a type selector is decided by the
\* tag, any other selector by the element's markup (el.sels)
matchesSimple(el, s) ==
  CASE s = "h1" -> el.tag = "H1"
    [] s = "h2" -> el.tag = "H2"
    [] s = "h3" -> el.tag = "H3"
    [] s = "p" -> el.tag = "P"
    [] s = "div" -> el.tag = "DIV"
    [] s = "article" -> el.tag = "ARTICLE"
    [] s = "section" -> el.tag = "SECTION"
    [] OTHER -> s \in el.sels

\* Element.matches(sel)
matches(el, sel) == \E s \in selectorParts(sel) : matchesSimple(el, s)

\* document.querySelectorAll(sel): the matching elements in document order
querySelectorAll(d, sel) == SelectSeq(d, LAMBDA el : matches(el, sel))

\* document.querySelector(sel): <<>> is null, <<el>> the first match
querySelector(d, sel) ==
  LET all == querySelectorAll(d, sel)
  IN  IF all = <<>> THEN <<>> ELSE <<all[1]>>

\* document.querySelector(sel)?.textContent?.trim() || ''
queryText(d, sel) ==
  LET element == querySelector(d, sel)
  IN  IF element = <<>> THEN <<>> ELSE trim(element[1].text)

-----------------------------------------------------------------------------
(* ExtractionDispatcher: detectPlatform *)

\* detectPlatform that tests 'boards.greenhouse.io' before 'linkedin.com/jobs'
detectPlatformGreenhouseFirst(u) ==
  IF includes(u, <<"b", "o", "a", "r", "d", "s", ".", "g", "r", "e", "e", "n", "h", "o", "u", "s", "e", ".", "i", "o">>) THEN "greenhouse"
  ELSE IF includes(u, <<"l", "i", "n", "k", "e", "d", "i", "n", ".", "c", "o", "m", "/", "j", "o", "b", "s">>) THEN "linkedin"
  ELSE IF includes(u, <<"j", "o", "b", "s", ".", "l", "e", "v", "e", "r", ".", "c", "o">>) THEN "lever"
  ELSE "none"

\* detectPlatform for window.location.href = u; "none" stands for null
detectPlatform(u) ==
  IF includes(u, <<"l", "i", "n", "k", "e", "d", "i", "n", ".", "c", "o", "m", "/", "j", "o", "b", "s">>) THEN "linkedin"
  ELSE IF includes(u, <<"b", "o", "a", "r", "d", "s", ".", "g", "r", "e", "e", "n", "h", "o", "u", "s", "e", ".", "i", "o">>) THEN "greenhouse"
  ELSE IF includes(u, <<"j", "o", "b", "s", ".", "l", "e", "v", "e", "r", ".", "c", "o">>) THEN "lever"
  ELSE "none"

-----------------------------------------------------------------------------
(* SelectorResolver: _trySelectors *)

\* trySelectorsFrom returning at the first selector that matches an element,
\* whatever its text
RECURSIVE trySelectorsFromAnyElement(_, _, _)
trySelectorsFromAnyElement(i, selectors, d) ==
  IF i > Len(selectors) THEN <<>>
  ELSE LET element == querySelector(d, selectors[i])
       IN  IF element # <<>>
           THEN trim(element[1].text)
           ELSE trySelectorsFromAnyElement(i + 1, selectors, d)

\* the for loop of _trySelectors, from the i-th selector on
RECURSIVE trySelectorsFrom(_, _, _)
trySelectorsFrom(i, selectors, d) ==
  IF i > Len(selectors) THEN <<>>
  ELSE LET element == querySelector(d, selectors[i])
       IN  IF element # <<>> /\ trim(element[1].text) # <<>>
           THEN trim(element[1].text)
           ELSE trySelectorsFrom(i + 1, selectors, d)

\* _trySelectors(selectors, fieldName) against document d
_trySelectors(selectors, d) == trySelectorsFrom(1, selectors, d)

-----------------------------------------------------------------------------
(* RenderReadinessWaiter: the probes of waitForLinkedInRender *)

\* the five indicators of one tick, as logged
pageReadiness(d) ==
  [hasH1 |-> Len(querySelectorAll(d, "h1")) > 0,
   hasJobCard |-> querySelector(d,
     ".jobs-unified-top-card, .job-details-jobs-unified-top-card, .jobs-details__main-content") # <<>>,
   hasDescription |-> querySelector(d,
     ".jobs-description, .jobs-box__html-content, .show-more-less-html__markup, .jobs-description-content__text") # <<>>,
   hasScaffold |-> querySelector(d, ".scaffold-layout__detail, .scaffold-layout--reflow") # <<>>,
   hasJobDetails |-> querySelector(d, "[data-job-id]") # <<>>]

\* hasH1 || hasJobCard || hasDescription || hasScaffold || hasJobDetails
isReady(p) ==
  p.hasH1 \/ p.hasJobCard \/ p.hasDescription \/ p.hasScaffold \/ p.hasJobDetails

-----------------------------------------------------------------------------
(* PlatformExtractor, LinkedIn: the selector lists *)

\* extractLinkedIn: jobTitleSelectors (20 selectors, in priority order)
jobTitleSelectors ==
  <<
    ".job-details-jobs-unified-top-card__job-title h1",
    ".jobs-unified-top-card__job-title h1",
    "h1.job-details-jobs-unified-top-card__job-title",
    "h1.jobs-unified-top-card__job-title",
    ".scaffold-layout__detail h1",
    ".jobs-details__main-content h1",
    "h1.top-card-layout__title",
    "h1.topcard__title",
    ".jobs-unified-top-card__job-title",
    ".job-details-jobs-unified-top-card__job-title",
    "h1.t-24.t-bold.inline",
    "h1.t-24.t-bold",
    "h1.t-20",
    "h1[data-test-job-title]",
    "h1[class*=\"job-title\"]",
    "h1[class*=\"topcard\"]",
    ".jobs-details h1",
    ".job-view-layout h1",
    "main h1",
    "h1"
  >>

\* extractLinkedIn: companySelectors (10 selectors, in priority order)
companySelectors ==
  <<
    ".job-details-jobs-unified-top-card__company-name a",
    ".jobs-unified-top-card__company-name a",
    "a.app-aware-link[href*=\"/company/\"]",
    ".topcard__org-name-link",
    ".topcard__flavor-row a",
    ".jobs-unified-top-card__company-name",
    ".job-details-jobs-unified-top-card__company-name",
    "a[data-tracking-control-name=\"public_jobs_topcard-org-name\"]",
    ".jobs-unified-top-card__subtitle-primary-grouping a",
    "a[class*=\"company-name\"]"
  >>

\* extractLinkedIn: descriptionSelectors (20 selectors, in priority order)
descriptionSelectors ==
  <<
    ".jobs-description-content__text",
    ".jobs-box__html-content",
    "div[class*=\"jobs-description\"] .jobs-box__html-content",
    ".jobs-description__content div",
    ".show-more-less-html__markup",
    ".show-more-less-html__markup--clamp-after-5",
    ".scaffold-layout__detail .jobs-description",
    ".jobs-details__main-content .jobs-description",
    ".jobs-description__content",
    ".jobs-description-content",
    "#job-details",
    ".jobs-description",
    ".description__text",
    "article[class*=\"jobs-description\"]",
    "section[class*=\"jobs-description\"]",
    "div[class*=\"job-description\"]",
    "[data-job-description]",
    "div[id*=\"description\"]",
    ".jobs-details__main-content div[class*=\"description\"]",
    "main div[class*=\"description\"]"
  >>

\* extractLinkedIn: locationSelectors (7 selectors, in priority order)
locationSelectors ==
  <<
    ".job-details-jobs-unified-top-card__primary-description-container span",
    ".jobs-unified-top-card__workplace-type",
    ".jobs-unified-top-card__bullet",
    ".topcard__flavor-row .topcard__flavor--bullet",
    ".job-details-jobs-unified-top-card__primary-description-container",
    ".jobs-unified-top-card__primary-description",
    "span[class*=\"job-location\"]"
  >>

-----------------------------------------------------------------------------
(* CandidateScorer: the title fallback of extractLinkedIn *)

jobKeywords ==
  <<
    <<"e", "n", "g", "i", "n", "e", "e", "r">>,
    <<"d", "e", "v", "e", "l", "o", "p", "e", "r">>,
    <<"m", "a", "n", "a", "g", "e", "r">>,
    <<"a", "n", "a", "l", "y", "s", "t">>,
    <<"d", "e", "s", "i", "g", "n", "e", "r">>,
    <<"s", "c", "i", "e", "n", "t", "i", "s", "t">>,
    <<"a", "r", "c", "h", "i", "t", "e", "c", "t">>,
    <<"l", "e", "a", "d">>,
    <<"s", "e", "n", "i", "o", "r">>,
    <<"j", "u", "n", "i", "o", "r">>,
    <<"s", "t", "a", "f", "f">>
  >>

\* titleScore with the second length band ending before 200
titleScoreBelow200(el) ==
  LET text      == trim(el.text)
      lowerText == toLowerCase(text)
      length    == IF Len(text) >= 20 /\ Len(text) <= 150 THEN 10
                   ELSE IF Len(text) >= 10 /\ Len(text) < 200 THEN 5
                   ELSE 0
      keyword   == IF \E i \in DOMAIN jobKeywords : includes(lowerText, jobKeywords[i])
                   THEN 20 ELSE 0
      penalty   == IF \/ includes(lowerText, <<"l", "i", "n", "k", "e", "d", "i", "n">>)
                      \/ includes(lowerText, <<"s", "i", "g", "n", " ", "i", "n">>)
                      \/ includes(lowerText, <<"j", "o", "i", "n">>)
                   THEN 50 ELSE 0
      heading   == IF el.tag = "H1" THEN 15
                   ELSE IF el.tag = "H2" THEN 10
                   ELSE IF el.tag = "H3" THEN 5
                   ELSE 0
  IN  length + keyword - penalty + heading

\* the score the map callback gives element el
titleScore(el) ==
  LET text      == trim(el.text)
      lowerText == toLowerCase(text)
      length    == IF Len(text) >= 20 /\ Len(text) <= 150 THEN 10
                   ELSE IF Len(text) >= 10 /\ Len(text) <= 200 THEN 5
                   ELSE 0
      keyword   == IF \E i \in DOMAIN jobKeywords : includes(lowerText, jobKeywords[i])
                   THEN 20 ELSE 0
      penalty   == IF \/ includes(lowerText, <<"l", "i", "n", "k", "e", "d", "i", "n">>)
                      \/ includes(lowerText, <<"s", "i", "g", "n", " ", "i", "n">>)
                      \/ includes(lowerText, <<"j", "o", "i", "n">>)
                   THEN 50 ELSE 0
      heading   == IF el.tag = "H1" THEN 15
                   ELSE IF el.tag = "H2" THEN 10
                   ELSE IF el.tag = "H3" THEN 5
                   ELSE 0
  IN  length + keyword - penalty + heading

\* { element: el, text, score }
scoredCandidate(el) == [element |-> el, text |-> trim(el.text), score |-> titleScore(el)]

\* sortByScore that puts a candidate before those of equal score
RECURSIVE sortByScoreLaterFirst(_)
sortByScoreLaterFirst(s) ==
  IF s = <<>> THEN <<>>
  ELSE LET init == sortByScoreLaterFirst(SubSeq(s, 1, Len(s) - 1))
           x    == s[Len(s)]
           n    == Cardinality({i \in 1..Len(init) : init[i].score > x.score})
       IN  SubSeq(init, 1, n) \o <<x>> \o SubSeq(init, n + 1, Len(init))

\* .sort((a, b) => b.score - a.score): descending, equal scores keep their order
RECURSIVE sortByScore(_)
sortByScore(s) ==
  IF s = <<>> THEN <<>>
  ELSE LET init == sortByScore(SubSeq(s, 1, Len(s) - 1))
           x    == s[Len(s)]
           n    == Cardinality({i \in 1..Len(init) : init[i].score >= x.score})
       IN  SubSeq(init, 1, n) \o <<x>> \o SubSeq(init, n + 1, Len(init))

\* headingElements: scored, filtered by score > 0, sorted
headingElements(d) ==
  LET pool   == querySelectorAll(d, "h1, h2, h3, p")
      scored == [i \in 1..Len(pool) |-> scoredCandidate(pool[i])]
  IN  sortByScore(SelectSeq(scored, LAMBDA item : item.score > 0))

\* fieldEmpty that holds of every value
fieldEmptyAlways(value) == TRUE

\* !jobTitle || jobTitle.trim().length === 0, and the same test on description
fieldEmpty(value) == falsy(value) \/ Len(trim(value)) = 0

\* jobTitle after the title fallback block
titleAfterFallback(jobTitle, d) ==
  IF fieldEmpty(jobTitle)
  THEN IF Len(headingElements(d)) > 0 THEN headingElements(d)[1].text ELSE jobTitle
  ELSE jobTitle

-----------------------------------------------------------------------------
(* CandidateScorer: the description fallback of extractLinkedIn *)

\* descriptionAccepted that takes a text of exactly 300 characters
descriptionAcceptedFrom300(el) ==
  LET text      == trim(el.text)
      lowerText == toLowerCase(text)
      hasNavigationText ==
        \/ includes(lowerText, <<"s", "i", "g", "n", " ", "i", "n">>)
        \/ includes(lowerText, <<"j", "o", "i", "n", " ", "n", "o", "w">>)
        \/ includes(lowerText, <<"m", "e", "s", "s", "a", "g", "i", "n", "g">>)
        \/ lineCount(text) > 100
  IN  Len(text) >= 300 /\ Len(text) < 20000 /\ ~hasNavigationText

\* the filter callback of the description scan
descriptionAccepted(el) ==
  LET text      == trim(el.text)
      lowerText == toLowerCase(text)
      hasNavigationText ==
        \/ includes(lowerText, <<"s", "i", "g", "n", " ", "i", "n">>)
        \/ includes(lowerText, <<"j", "o", "i", "n", " ", "n", "o", "w">>)
        \/ includes(lowerText, <<"m", "e", "s", "s", "a", "g", "i", "n", "g">>)
        \/ lineCount(text) > 100
  IN  Len(text) > 300 /\ Len(text) < 20000 /\ ~hasNavigationText

\* .sort((a, b) => bLen - aLen) on textContent.length: descending, stable
RECURSIVE sortByTextLength(_)
sortByTextLength(s) ==
  IF s = <<>> THEN <<>>
  ELSE LET init == sortByTextLength(SubSeq(s, 1, Len(s) - 1))
           x    == s[Len(s)]
           n    == Cardinality({i \in 1..Len(init) : Len(init[i].text) >= Len(x.text)})
       IN  SubSeq(init, 1, n) \o <<x>> \o SubSeq(init, n + 1, Len(init))

\* textElements: filtered, sorted, the top 5
textElements(d) ==
  LET sorted == sortByTextLength(
                  SelectSeq(querySelectorAll(d, "div, article, section"), descriptionAccepted))
  IN  SubSeq(sorted, 1, IF Len(sorted) < 5 THEN Len(sorted) ELSE 5)

\* description after the description fallback block
descriptionAfterFallback(description, d) ==
  IF fieldEmpty(description)
  THEN IF Len(textElements(d)) > 0 THEN trim(textElements(d)[1].text) ELSE description
  ELSE description

-----------------------------------------------------------------------------
(* The environment: addresses and markup *)

\* the addresses the tab may be at; url is an index of this list
URLs ==
  << <<"h", "t", "t", "p", "s", ":", "/", "/", "w", "w", "w", ".", "l", "i", "n", "k", "e", "d", "i", "n", ".", "c", "o", "m", "/", "j", "o", "b", "s", "/", "v", "i", "e", "w", "/", "1">>,
    <<"h", "t", "t", "p", "s", ":", "/", "/", "b", "o", "a", "r", "d", "s", ".", "g", "r", "e", "e", "n", "h", "o", "u", "s", "e", ".", "i", "o", "/", "a", "c", "m", "e", "/", "j", "o", "b", "s", "/", "1">>,
    <<"h", "t", "t", "p", "s", ":", "/", "/", "j", "o", "b", "s", ".", "l", "e", "v", "e", "r", ".", "c", "o", "/", "a", "c", "m", "e", "/", "1">>,
    <<"h", "t", "t", "p", "s", ":", "/", "/", "e", "x", "a", "m", "p", "l", "e", ".", "c", "o", "m", "/", "c", "a", "r", "e", "e", "r", "s">>,
    <<"h", "t", "t", "p", "s", ":", "/", "/", "w", "w", "w", ".", "l", "i", "n", "k", "e", "d", "i", "n", ".", "c", "o", "m", "/", "j", "o", "b", "s", "/", "v", "i", "e", "w", "/", "2">>,
    <<"h", "t", "t", "p", "s", ":", "/", "/", "w", "w", "w", ".", "l", "i", "n", "k", "e", "d", "i", "n", ".", "c", "o", "m", "/", "f", "e", "e", "d", "/">> >>

\* the elements a page may render; doc is a sequence of indexes of this list
ElementPool ==
  << [tag |-> "H1", sels |-> {"h1.t-24.t-bold", "h1.app-title"},
     text |-> <<" ", " ", "S", "e", "n", "i", "o", "r", " ", "B", "a", "c", "k", "e", "n", "d", " ", "E", "n", "g", "i", "n", "e", "e", "r", "\n">>],
    [tag |-> "H1", sels |-> {"h1.t-24.t-bold"}, text |-> <<" ", "\n">>],
    [tag |-> "H2", sels |-> {".posting-headline h2"},
     text |-> <<"S", "t", "a", "f", "f", " ", "D", "e", "v", "e", "l", "o", "p", "e", "r", ",", " ", "P", "l", "a", "t", "f", "o", "r", "m">>],
    [tag |-> "P", sels |-> {},
     text |-> <<"C", "l", "i", "c", "k", " ", "h", "e", "r", "e", " ", "t", "o", " ", "s", "i", "g", "n", " ", "i", "n">>],
    [tag |-> "A", sels |-> {".topcard__org-name-link", ".company-name", ".main-header-text-item-1"},
     text |-> <<" ", "A", "c", "m", "e", " ">>],
    [tag |-> "DIV", sels |-> {".jobs-description", "#content", ".content"},
     text |-> <<"\n", " ", "W", "e", " ", "u", "s", "e", " ", "P", "y", "t", "h", "o", "n", ",", " ", "A", "W", "S", " ", "a", "n", "d", " ", "G", "o", ".", "\n">>],
    [tag |-> "SECTION", sels |-> {},
     text |-> <<"O", "u", "r", " ", "s", "t", "a", "c", "k", ":", " ", "R", "E", "A", "C", "T", ",", " ", "N", "o", "d", "e", ".", "j", "s", "\n", "a", "n", "d", " ", "C", "+", "+", ".", " ">> \o [i \in 1..300 |-> "x"]],
    [tag |-> "SPAN", sels |-> {".jobs-unified-top-card__bullet", ".location"},
     text |-> <<"R", "e", "m", "o", "t", "e">>] >>

\* most elements in the document
MaxElems == 2

\* the documents: the sequences of at most MaxElems element indexes
Docs == UNION {[1..n -> DOMAIN ElementPool] : n \in 0..MaxElems}

\* the elements of document d, in document order
elements(d) == [i \in DOMAIN d |-> ElementPool[d[i]]]

\* window.location.href
href == URLs[url]

\* the origin of address u: what precedes the third '/'
origin(u) ==
  LET third == {p \in DOMAIN u : u[p] = "/" /\ Cardinality({j \in 1..p : u[j] = "/"}) = 3}
  IN  IF third = {} THEN u ELSE SubSeq(u, 1, (CHOOSE p \in third : TRUE) - 1)

-----------------------------------------------------------------------------
(* PlatformExtractor: the bodies of extractLinkedIn, extractGreenhouse, extractLever *)

\* extractLinkedIn after the wait: the four resolutions and the two fallbacks on
\* the elements els, with what the fallback blocks logged
linkedInFields(els) ==
  LET jobTitle    == _trySelectors(jobTitleSelectors, els)
      company     == _trySelectors(companySelectors, els)
      description == _trySelectors(descriptionSelectors, els)
      location    == _trySelectors(locationSelectors, els)
  IN  [jobTitle |-> titleAfterFallback(jobTitle, els), company |-> company,
       description |-> descriptionAfterFallback(description, els), location |-> location,
       titleFallback |-> fieldEmpty(jobTitle), descFallback |-> fieldEmpty(description)]

\* the four queries of extractGreenhouse
greenhouseFields(els) ==
  [jobTitle |-> queryText(els, "h1.app-title"), company |-> queryText(els, ".company-name"),
   description |-> queryText(els, "#content, .content"),
   location |-> queryText(els, ".location"),
   titleFallback |-> FALSE, descFallback |-> FALSE]

\* the four queries of extractLever
leverFields(els) ==
  [jobTitle |-> queryText(els, ".posting-headline h2"),
   company |-> queryText(els, ".main-header-text-item-1"),
   description |-> queryText(els, ".content, .section-wrapper"),
   location |-> queryText(els, ".location, .posting-categories .location"),
   titleFallback |-> FALSE, descFallback |-> FALSE]

\* the fields a platform's extractor reads from elements els
platformFields(platform, els) ==
  CASE platform = "linkedin" -> linkedInFields(els)
    [] platform = "greenhouse" -> greenhouseFields(els)
    [] platform = "lever" -> leverFields(els)

\* platformFields of every document, computed once
fieldsOfDoc ==
  [platform \in {"linkedin", "greenhouse", "lever"}, d \in Docs |->
     platformFields(platform, elements(d))]

\* the descriptions the documents yield
DocDescriptions ==
  {fieldsOfDoc[platform, d].description : platform \in {"linkedin", "greenhouse", "lever"}, d \in Docs}

\* the keyword loop on every such description with the lowercase list, computed once
foundTechOfDescription ==
  [t \in DocDescriptions |-> dedupe(techLoop(1, toLowerCase(t), techKeywordsMapLower, <<>>))]

\* extractTechStack that finds nothing in the call that fills the cache
extractTechStackColdMiss(text, cache) ==
  IF falsy(text) \/ cache = <<>> THEN <<>>
  ELSE dedupe(techLoop(1, toLowerCase(text), cache, <<>>))

\* extractTechStack(text), with the cache it reads: the array returned
extractTechStack(text, cache) ==
  IF falsy(text) THEN <<>>
  ELSE LET lowerKeywords == _getTechKeywordsLower(cache)
       IN  IF lowerKeywords = techKeywordsMapLower /\ text \in DocDescriptions
           THEN foundTechOfDescription[text]
           ELSE dedupe(techLoop(1, toLowerCase(text), lowerKeywords, <<>>))

\* the cache after extractTechStack(text)
extractTechStackCache(text, cache) ==
  IF falsy(text) THEN cache ELSE _getTechKeywordsLower(cache)

\* extractBody with the keywords matched before the description fallback
extractBodyTechBeforeFallback(platform, d, u, cache) ==
  LET f == platformFields(platform, elements(d))
  IN  [record |-> [platform |-> platform, jobTitle |-> f.jobTitle, company |-> f.company,
                   description |-> f.description, location |-> f.location,
                   techStack |-> IF f.descFallback THEN <<>>
                                 ELSE extractTechStack(f.description, cache),
                   url |-> u],
       titleFallback |-> f.titleFallback, descFallback |-> f.descFallback]

\* a platform extractor's try block on document d at address u: the JobRecord
\* (extractedAt, a clock reading, is left out of the state) and what was logged
extractBody(platform, d, u, cache) ==
  LET f == IF d \in Docs THEN fieldsOfDoc[platform, d] ELSE platformFields(platform, elements(d))
  IN  [record |-> [platform |-> platform, jobTitle |-> f.jobTitle, company |-> f.company,
                   description |-> f.description, location |-> f.location,
                   techStack |-> extractTechStack(f.description, cache), url |-> u],
       titleFallback |-> f.titleFallback, descFallback |-> f.descFallback]

\* the cache after a body has run: extractTechStack(description) is its only writer
cacheAfter(body, cache) == extractTechStackCache(body.record.description, cache)

-----------------------------------------------------------------------------
(* Bounds *)

\* largest maxAttempts given to a direct call of waitForLinkedInRender
MaxAttemptsArg == 3

\* waitForLinkedInRender(maxAttempts = 20, ...)
DefaultMaxAttempts == 20

-----------------------------------------------------------------------------
(* The calls *)

NoTrace ==
  [waited |-> FALSE, titleFallback |-> FALSE, descFallback |-> FALSE,
   docFault |-> FALSE, caught |-> FALSE]

\* a job object none of whose properties is there
EmptyJob ==
  [id |-> Absent, url |-> Absent, jobTitle |-> Absent, description |-> Absent,
   analysis |-> Absent, analyzedAt |-> Absent, analysisError |-> Absent,
   updatedAt |-> Absent]

\* the callers of Storage: a call is in flight for each of them at most
StorageCalls == {1, 2}

\* no Storage call of this caller is in flight
NoCall ==
  [op |-> "none", pc |-> "idle", jobData |-> EmptyJob, jobId |-> Absent,
   pending |-> <<>>, ret |-> "none", readFault |-> FALSE, writeFault |-> FALSE,
   given |-> EmptyJob]

\* nothing stored, no Storage call in flight
StorageIdle ==
  /\ jobs = <<>>
  /\ calls = [c \in StorageCalls |-> NoCall]
  /\ now = 0

\* what analyzeJob of the Claude client resolved to
NoAnalysis == [analysis |-> Absent, analyzedAt |-> Absent]

\* what sendResponse was given
NoResponse == [success |-> FALSE, error |-> "none", analysis |-> Absent, jobId |-> Absent]

\* no analyzeJob message is being handled
NoHandler ==
  [pc |-> "idle", jobData |-> EmptyJob, apiKey |-> <<>>, error |-> "none",
   analysisResult |-> NoAnalysis, response |-> NoResponse, served |-> 0]

\* the content script as it is loaded: no click yet, no timer set, no
\* sendMessageWithTimeout promise pending
NoContent ==
  [isProcessing |-> FALSE, lastAnalyzeTime |-> 0, pc |-> "idle", button |-> "default",
   notification |-> "none", jobData |-> Absent, extracted |-> <<>>, port |-> 0,
   timeoutAt |-> <<>>, resetAt |-> {}, clicks |-> 0,
   settled |-> "none", response |-> NoResponse, error |-> "none"]

\* the tabs.onUpdated listeners that can be in flight at a time
Listeners == {1, 2}

\* a listener that is not running
NoListener == [pc |-> "idle", tabId |-> 0, url |-> 0]

\* the background as it is loaded, with nothing stored: analyzedUrls is
\* empty, no listener runs, no timer is set, no autoAnalyze message was sent
NoAuto ==
  [analyzedUrls |-> {}, listeners |-> [l \in Listeners |-> NoListener], timers |-> {},
   sends |-> <<>>, autoAnalyze |-> FALSE, apiKey |-> <<>>, events |-> 0]

\* the scripts have not run
ScriptsAtRest ==
  /\ handler = NoHandler
  /\ content = NoContent
  /\ channel = <<>>
  /\ auto = NoAuto

\* the rest of the extension has not run
AppIdle == StorageIdle /\ ScriptsAtRest

\* the second extract() call is not in flight
OtherIdle == [pc |-> "idle", attempt |-> 0, waitResult |-> "none"]

\* JobExtractor has not been called, on an empty page
ExtractorAtRest ==
  /\ url = 1
  /\ doc = <<>>
  /\ _techKeywordsLower = <<>>
  /\ other = OtherIdle
  /\ pc = "idle"
  /\ op = "none"
  /\ maxAttempts = 0
  /\ attempt = 0
  /\ probeLog = <<>>
  /\ delays = 0
  /\ waitResult = "none"
  /\ result = <<>>
  /\ trace = NoTrace
  /\ arg = <<>>
  /\ ret = <<>>

\* no call in flight
Idle ==
  /\ AppIdle
  /\ other = OtherIdle
  /\ pc = "idle"
  /\ op = "none"
  /\ maxAttempts = 0
  /\ attempt = 0
  /\ probeLog = <<>>
  /\ delays = 0
  /\ waitResult = "none"
  /\ result = <<>>
  /\ trace = NoTrace
  /\ arg = <<>>
  /\ ret = <<>>

Init ==
  /\ url \in DOMAIN URLs
  /\ doc = <<>>
  /\ _techKeywordsLower = <<>>
  /\ Idle

\* waitForLinkedInRender returns (r = "true", "false") or rejects (r = "rejected")
\* with loop variable a of m; log: the ticks of the call.  A direct call ends
\* here, and its caller sees the ticks and delays it took; inside extract() the
\* await of extractLinkedIn is next, and the finished call's frame is gone
WaitReturns(r, log, a, m, o) ==
  /\ waitResult' = r
  /\ IF o = "extract"
     THEN /\ pc' = "resume"
          /\ maxAttempts' = 0
          /\ attempt' = 0
          /\ probeLog' = <<>>
          /\ delays' = 0
     ELSE /\ pc' = "done"
          /\ maxAttempts' = m
          /\ attempt' = a
          /\ probeLog' = log
          /\ UNCHANGED delays

\* WaitFrom that waits out the budget after a successful tick
WaitFromNoShortCircuit(a, m, o, fault) ==
  IF a > m THEN WaitReturns("false", probeLog, a, m, o)
  ELSE IF fault THEN WaitReturns("rejected", probeLog, a, m, o)
  ELSE IF a < m
  THEN /\ waitResult' = "none"
       /\ pc' = "sleeping"
       /\ maxAttempts' = m
       /\ attempt' = a
       /\ probeLog' = Append(probeLog, isReady(pageReadiness(elements(doc))))
       /\ delays' = delays + 1
  ELSE WaitReturns(IF \E i \in DOMAIN probeLog : probeLog[i] THEN "true" ELSE "false",
                   Append(probeLog, isReady(pageReadiness(elements(doc)))), a, m, o)

\* WaitFrom whose loop runs while attempt < maxAttempts
WaitFromOneTickShort(a, m, o, fault) ==
  IF a >= m THEN WaitReturns("false", probeLog, a, m, o)
  ELSE IF fault THEN WaitReturns("rejected", probeLog, a, m, o)
  ELSE IF isReady(pageReadiness(elements(doc)))
  THEN WaitReturns("true", Append(probeLog, TRUE), a, m, o)
  ELSE /\ waitResult' = "none"
       /\ pc' = "sleeping"
       /\ maxAttempts' = m
       /\ attempt' = a
       /\ probeLog' = Append(probeLog, FALSE)
       /\ delays' = delays + 1

\* WaitFrom that sleeps after every unsuccessful tick, the last one included
WaitFromSleepsAfterLastTick(a, m, o, fault) ==
  IF a > m THEN WaitReturns("false", probeLog, a, m, o)
  ELSE IF fault THEN WaitReturns("rejected", probeLog, a, m, o)
  ELSE IF isReady(pageReadiness(elements(doc)))
  THEN WaitReturns("true", Append(probeLog, TRUE), a, m, o)
  ELSE /\ waitResult' = "none"
       /\ pc' = "sleeping"
       /\ maxAttempts' = m
       /\ attempt' = a
       /\ probeLog' = Append(probeLog, FALSE)
       /\ delays' = delays + 1

\* waitForLinkedInRender from the head of its loop with attempt = a, up to the
\* next await or return; fault: the document access of this tick throws
WaitFrom(a, m, o, fault) ==
  IF a > m THEN WaitReturns("false", probeLog, a, m, o)
  ELSE IF fault THEN WaitReturns("rejected", probeLog, a, m, o)
  ELSE IF isReady(pageReadiness(elements(doc)))
  THEN WaitReturns("true", Append(probeLog, TRUE), a, m, o)
  ELSE IF a < m
  THEN /\ waitResult' = "none"
       /\ pc' = "sleeping"
       /\ maxAttempts' = m
       /\ attempt' = a
       /\ probeLog' = Append(probeLog, FALSE)
       /\ delays' = delays + 1
  ELSE WaitReturns("false", Append(probeLog, FALSE), a + 1, m, o)

\* Settle whose catch block returns what had been resolved
SettleKeepsRecordOnFault(body, fault) ==
  /\ pc' = "done"
  /\ result' = <<body.record>>
  /\ trace' = [trace EXCEPT !.titleFallback = body.titleFallback,
                            !.descFallback = body.descFallback,
                            !.docFault = fault, !.caught = fault]
  /\ _techKeywordsLower' = cacheAfter(body, _techKeywordsLower)

\* Settle that gives up on a record without a title
SettleNullWithoutTitle(body, fault) ==
  /\ pc' = "done"
  /\ IF fault
     THEN /\ result' = <<>>
          /\ trace' = [trace EXCEPT !.docFault = TRUE, !.caught = TRUE]
          /\ UNCHANGED _techKeywordsLower
     ELSE /\ result' = IF body.record.jobTitle = <<>> THEN <<>> ELSE <<body.record>>
          /\ trace' = [trace EXCEPT !.titleFallback = body.titleFallback,
                                    !.descFallback = body.descFallback]
          /\ _techKeywordsLower' = cacheAfter(body, _techKeywordsLower)

\* a platform extractor's try/catch around body: the record, or null when
\* the document access throws
Settle(body, fault) ==
  /\ pc' = "done"
  /\ IF fault
     THEN /\ result' = <<>>
          /\ trace' = [trace EXCEPT !.docFault = TRUE, !.caught = TRUE]
          /\ UNCHANGED _techKeywordsLower
     ELSE /\ result' = <<body.record>>
          /\ trace' = [trace EXCEPT !.titleFallback = body.titleFallback,
                                    !.descFallback = body.descFallback]
          /\ _techKeywordsLower' = cacheAfter(body, _techKeywordsLower)

\* CallExtract that runs the LinkedIn extractor when no platform is detected
CallExtractDefaultsToLinkedIn ==
  /\ pc = "idle"
  /\ op' = "extract"
  /\ \E fault \in BOOLEAN :
       LET platform == detectPlatform(href)
       IN  CASE platform \in {"none", "linkedin"} ->
                  /\ WaitFrom(1, DefaultMaxAttempts, "extract", fault)
                  /\ trace' = [trace EXCEPT !.waited = TRUE, !.docFault = fault]
                  /\ UNCHANGED <<_techKeywordsLower, result>>
             [] platform \in {"greenhouse", "lever"} ->
                  /\ Settle(extractBody(platform, doc, href, _techKeywordsLower), fault)
                  /\ UNCHANGED <<maxAttempts, attempt, probeLog, delays, waitResult>>
  /\ UNCHANGED <<appVars, other, url, doc, arg, ret>>

\* CallExtract that waits for the page to render on every supported platform
CallExtractWaitsOnEveryPlatform ==
  /\ pc = "idle"
  /\ op' = "extract"
  /\ \E fault \in BOOLEAN :
       LET platform == detectPlatform(href)
       IN  CASE platform = "none" ->
                  /\ ~fault
                  /\ pc' = "done"
                  /\ result' = <<>>
                  /\ UNCHANGED <<_techKeywordsLower, maxAttempts, attempt, probeLog, delays,
                                 waitResult, trace>>
             [] platform \in {"linkedin", "greenhouse", "lever"} ->
                  /\ WaitFrom(1, DefaultMaxAttempts, "extract", fault)
                  /\ trace' = [trace EXCEPT !.waited = TRUE, !.docFault = fault]
                  /\ UNCHANGED <<_techKeywordsLower, result>>
  /\ UNCHANGED <<appVars, other, url, doc, arg, ret>>

\* extract(): detectPlatform, then the platform's extractor up to its first await
CallExtract ==
  /\ pc = "idle"
  /\ op' = "extract"
  /\ \E fault \in BOOLEAN :
       LET platform == detectPlatform(href)
       IN  CASE platform = "none" ->
                  /\ ~fault
                  /\ pc' = "done"
                  /\ result' = <<>>
                  /\ UNCHANGED <<_techKeywordsLower, maxAttempts, attempt, probeLog, delays,
                                 waitResult, trace>>
             [] platform = "linkedin" ->
                  /\ WaitFrom(1, DefaultMaxAttempts, "extract", fault)
                  /\ trace' = [trace EXCEPT !.waited = TRUE, !.docFault = fault]
                  /\ UNCHANGED <<_techKeywordsLower, result>>
             [] platform \in {"greenhouse", "lever"} ->
                  /\ Settle(extractBody(platform, doc, href, _techKeywordsLower), fault)
                  /\ UNCHANGED <<maxAttempts, attempt, probeLog, delays, waitResult>>
  /\ UNCHANGED <<appVars, other, url, doc, arg, ret>>

\* a direct call waitForLinkedInRender(m, delay)
CallWait(m) ==
  /\ pc = "idle"
  /\ op' = "wait"
  /\ \E fault \in BOOLEAN :
       /\ WaitFrom(1, m, "wait", fault)
       /\ trace' = [trace EXCEPT !.docFault = fault /\ m >= 1]
  /\ UNCHANGED <<appVars, other, url, doc, _techKeywordsLower, result, arg, ret>>

\* the timer of the inter-tick delay fires: attempt++ and the next tick (a timer
\* task does not run while a continuation is waiting in the microtask queue)
TimerFires ==
  /\ pc = "sleeping"
  /\ other.pc # "resume"
  /\ \E fault \in BOOLEAN :
       /\ WaitFrom(attempt + 1, maxAttempts, op, fault)
       /\ trace' = [trace EXCEPT !.docFault = fault]
  /\ UNCHANGED <<appVars, other, url, doc, _techKeywordsLower, op, result, arg, ret>>

\* ResumeExtractLinkedIn that returns null when the waiter gave up
ResumeGivesUpOnTimeout ==
  /\ pc = "resume"
  /\ pc' = "done"
  /\ \E fault \in BOOLEAN :
       IF fault \/ waitResult # "true"
       THEN /\ result' = <<>>
            /\ trace' = [trace EXCEPT !.docFault = fault \/ waitResult = "rejected",
                                      !.caught = fault \/ waitResult = "rejected"]
            /\ UNCHANGED _techKeywordsLower
       ELSE LET body == extractBody("linkedin", doc, href, _techKeywordsLower)
            IN  /\ result' = <<body.record>>
                /\ trace' = [trace EXCEPT !.titleFallback = body.titleFallback,
                                          !.descFallback = body.descFallback]
                /\ _techKeywordsLower' = cacheAfter(body, _techKeywordsLower)
  /\ UNCHANGED <<appVars, other, url, doc, op, maxAttempts, attempt, probeLog, delays, waitResult, arg, ret>>

\* ResumeExtractLinkedIn that suspends once more between resolving the fields
\* and returning the record
ResumeExtractLinkedInInTwoSteps ==
  /\ pc = "resume"
  /\ IF result = <<>>
     THEN \E fault \in BOOLEAN :
            IF fault \/ waitResult = "rejected"
            THEN Settle(extractBody("linkedin", doc, href, _techKeywordsLower), TRUE)
            ELSE LET body == extractBody("linkedin", doc, href, _techKeywordsLower)
                 IN  /\ pc' = "resume"
                     /\ result' = <<body.record>>
                     /\ trace' = [trace EXCEPT !.titleFallback = body.titleFallback,
                                               !.descFallback = body.descFallback]
                     /\ _techKeywordsLower' = cacheAfter(body, _techKeywordsLower)
     ELSE /\ pc' = "done"
          /\ UNCHANGED <<result, trace, _techKeywordsLower>>
  /\ UNCHANGED <<appVars, other, url, doc, op, maxAttempts, attempt, probeLog, delays, waitResult, arg, ret>>

\* extractLinkedIn resumes after await this.waitForLinkedInRender()
ResumeExtractLinkedIn ==
  /\ pc = "resume"
  /\ \E fault \in BOOLEAN :
       Settle(extractBody("linkedin", doc, href, _techKeywordsLower),
              fault \/ waitResult = "rejected")
  /\ UNCHANGED <<appVars, other, url, doc, op, maxAttempts, attempt, probeLog, delays, waitResult, arg, ret>>

\* the caller has taken the outcome; the next call starts afresh
Return ==
  /\ pc = "done"
  /\ pc' = "idle"
  /\ op' = "none"
  /\ maxAttempts' = 0
  /\ attempt' = 0
  /\ probeLog' = <<>>
  /\ delays' = 0
  /\ waitResult' = "none"
  /\ result' = <<>>
  /\ trace' = NoTrace
  /\ arg' = <<>>
  /\ ret' = <<>>
  /\ UNCHANGED <<appVars, other, url, doc, _techKeywordsLower>>

\* the page renders element e at position i
DocInsert(e, i) ==
  /\ pc # "done"
  /\ Len(doc) < MaxElems
  /\ doc' = SubSeq(doc, 1, i - 1) \o <<e>> \o SubSeq(doc, i, Len(doc))
  /\ UNCHANGED <<appVars, other, url, _techKeywordsLower, pc, op, maxAttempts, attempt, probeLog, delays,
                 waitResult, result, trace, arg, ret>>

\* the page removes its i-th element
DocRemove(i) ==
  /\ pc # "done"
  /\ doc' = SubSeq(doc, 1, i - 1) \o SubSeq(doc, i + 1, Len(doc))
  /\ UNCHANGED <<appVars, other, url, _techKeywordsLower, pc, op, maxAttempts, attempt, probeLog, delays,
                 waitResult, result, trace, arg, ret>>

\* the address changes under the running script (history.pushState of a
\* single-page application): the new address has the origin of the old one
Navigate(u) ==
  /\ pc # "done"
  /\ u # url
  /\ origin(URLs[u]) = origin(href)
  /\ url' = u
  /\ UNCHANGED <<appVars, other, doc, _techKeywordsLower, pc, op, maxAttempts, attempt, probeLog, delays,
                 waitResult, result, trace, arg, ret>>

Next ==
  \/ CallExtract
  \/ \E m \in 0..MaxAttemptsArg : CallWait(m)
  \/ TimerFires
  \/ ResumeExtractLinkedIn
  \/ Return
  \/ \E e \in DOMAIN ElementPool, i \in 1..(Len(doc) + 1) : DocInsert(e, i)
  \/ \E i \in 1..Len(doc) : DocRemove(i)
  \/ \E u \in DOMAIN URLs : Navigate(u)

Spec == Init /\ [][Next]_vars

\* the same calls in a browser whose timers fire: a setTimeout(resolve, delay)
\* that was set is eventually run
SpecLive == Init /\ [][Next]_vars /\ WF_vars(TimerFires)


-----------------------------------------------------------------------------
(* Direct calls of the helpers, on inputs drawn from bounded sets *)

\* longest selector list given to _trySelectors
MaxSelectors == 3

\* the selectors such a list is made of
SelectorAlphabet == {"#missing", "h1.t-24.t-bold", "h1", ".company-name"}

SelectorLists == UNION {[1..n -> SelectorAlphabet] : n \in 0..MaxSelectors}

\* _trySelectors(selectors, field) is called
CallTrySelectors(selectors) ==
  /\ pc = "idle"
  /\ pc' = "done"
  /\ op' = "_trySelectors"
  /\ arg' = selectors
  /\ ret' = _trySelectors(selectors, elements(doc))
  /\ UNCHANGED <<appVars, other, url, doc, _techKeywordsLower, maxAttempts, attempt, probeLog, delays,
                 waitResult, result, trace>>

InitSel ==
  /\ url = 1
  /\ doc \in Docs
  /\ _techKeywordsLower = <<>>
  /\ Idle

NextSel ==
  \/ \E selectors \in SelectorLists : CallTrySelectors(selectors)
  \/ Return

SpecSel == InitSel /\ [][NextSel]_vars

\* longest text given to extractTechStack
MaxTextLen == 4

\* the characters such a text is made of
TechAlphabet == {"G", "g", "o", "C", "#", "+"}

TechTexts == UNION {[1..n -> TechAlphabet] : n \in 0..MaxTextLen} \cup {Absent}

\* extractTechStack(text) is called
CallExtractTechStack(text) ==
  /\ pc = "idle"
  /\ pc' = "done"
  /\ op' = "extractTechStack"
  /\ arg' = text
  /\ ret' = extractTechStack(text, _techKeywordsLower)
  /\ _techKeywordsLower' = extractTechStackCache(text, _techKeywordsLower)
  /\ UNCHANGED <<appVars, other, url, doc, maxAttempts, attempt, probeLog, delays, waitResult, result, trace>>

InitTech ==
  /\ url = 1
  /\ doc = <<>>
  /\ _techKeywordsLower = <<>>
  /\ Idle

NextTech ==
  \/ \E text \in TechTexts : CallExtractTechStack(text)
  \/ Return

SpecTech == InitTech /\ [][NextTech]_vars

\* longest text of a title candidate
MaxTitleLen == 201

\* what a candidate's text starts with
TitleCores ==
  { <<>>,
    <<"S", "e", "n", "i", "o", "r", " ", "B", "a", "c", "k", "e", "n", "d", " ", "E", "n", "g", "i", "n", "e", "e", "r">>,
    <<"S", "i", "g", "n", " ", "I", "n", " ", "t", "o", " ", "a", "p", "p", "l", "y">>,
    <<"J", "o", "i", "n", " ", "a", "s", " ", "S", "t", "a", "f", "f", " ", "E", "n", "g", "i", "n", "e", "e", "r">> }

\* text of length n: core, cut or padded to n characters
titleText(core, n) ==
  IF n <= Len(core) THEN SubSeq(core, 1, n)
  ELSE core \o [i \in 1..(n - Len(core)) |-> "x"]

TitleCandidates ==
  {[tag |-> tag, sels |-> {}, text |-> titleText(core, n)] :
     tag \in {"H1", "H2", "H3", "P"}, core \in TitleCores, n \in 0..MaxTitleLen}

\* the map callback of the title fallback is applied to element el
ScoreCandidate(el) ==
  /\ pc = "idle"
  /\ pc' = "done"
  /\ op' = "titleScore"
  /\ arg' = el
  /\ ret' = scoredCandidate(el)
  /\ UNCHANGED <<appVars, other, url, doc, _techKeywordsLower, maxAttempts, attempt, probeLog, delays,
                 waitResult, result, trace>>

NextScore ==
  \/ \E el \in TitleCandidates : ScoreCandidate(el)
  \/ Return

SpecScore == InitTech /\ [][NextScore]_vars

-----------------------------------------------------------------------------
(* The fallback scans of extractLinkedIn, on documents drawn from bounded sets *)

\* text of n characters c
fill(n, c) == SubSeq([i \in 1..n |-> c], 1, n)

\* text of n characters with k line breaks inside it
brokenLines(n, k) ==
  SubSeq([i \in 1..n |-> IF i % 4 = 2 /\ i <= 4 * k THEN "\n" ELSE "x"], 1, n)

\* the headings and paragraphs a page may render for the title scan
TitlePool ==
  << [tag |-> "H1", sels |-> {}, text |-> <<"S", "e", "n", "i", "o", "r", " ", "B", "a", "c", "k", "e", "n", "d", " ", "E", "n", "g", "i", "n", "e", "e", "r">>],
    [tag |-> "H1", sels |-> {}, text |-> <<"S", "t", "a", "f", "f", " ", "P", "l", "a", "t", "f", "o", "r", "m", " ", "D", "e", "v", "e", "l", "o", "p", "e", "r">>],
    [tag |-> "H2", sels |-> {}, text |-> <<"L", "e", "a", "d", " ", "D", "a", "t", "a", " ", "S", "c", "i", "e", "n", "t", "i", "s", "t", ",", " ", "G", "r", "o", "w", "t", "h">>],
    [tag |-> "P", sels |-> {}, text |-> <<"C", "l", "i", "c", "k", " ", "h", "e", "r", "e", " ", "t", "o", " ", "s", "i", "g", "n", " ", "i", "n">>],
    [tag |-> "P", sels |-> {}, text |-> <<"J", "o", "b", "s">>],
    [tag |-> "H3", sels |-> {}, text |-> <<"J", "o", "b", "s">>] >>

\* most elements of a document given to the title scan
MaxTitleScan == 3

TitleDocs == UNION {[1..n -> DOMAIN TitlePool] : n \in 0..MaxTitleScan}

\* the title fallback block runs, jobTitle being '', on the document whose
\* elements are those of TitlePool at the indexes d
CallTitleFallback(d) ==
  /\ pc = "idle"
  /\ pc' = "done"
  /\ op' = "titleFallback"
  /\ arg' = d
  /\ ret' = titleAfterFallback(<<>>, [i \in DOMAIN d |-> TitlePool[d[i]]])
  /\ UNCHANGED <<appVars, other, url, doc, _techKeywordsLower, maxAttempts, attempt, probeLog, delays,
                 waitResult, result, trace>>

NextTitle ==
  \/ \E d \in TitleDocs : CallTitleFallback(d)
  \/ Return

SpecTitle == InitTech /\ [][NextTitle]_vars

\* the blocks of text a page may render for the description scan
DescriptionPool ==
  << [tag |-> "DIV", sels |-> {}, text |-> fill(300, "a")],
    [tag |-> "DIV", sels |-> {}, text |-> <<" ", "\n">> \o fill(301, "b") \o <<"\n">>],
    [tag |-> "ARTICLE", sels |-> {}, text |-> fill(19999, "c")],
    [tag |-> "SECTION", sels |-> {}, text |-> fill(20000, "d")],
    [tag |-> "DIV", sels |-> {}, text |-> <<"S", "i", "g", "n", " ", "I", "n", " ", "t", "o", " ", "a", "p", "p", "l", "y", ".", " ">> \o fill(400, "e")],
    [tag |-> "ARTICLE", sels |-> {}, text |-> <<"O", "p", "e", "n", " ", "M", "e", "s", "s", "a", "g", "i", "n", "g", ".", " ">> \o fill(400, "f")],
    [tag |-> "SECTION", sels |-> {}, text |-> <<"J", "o", "i", "n", " ", "n", "o", "w", "!", " ">> \o fill(400, "g")],
    [tag |-> "DIV", sels |-> {}, text |-> <<"J", "o", "i", "n", " ", "o", "u", "r", " ", "t", "e", "a", "m", ".", " ">> \o fill(400, "h")],
    [tag |-> "SECTION", sels |-> {}, text |-> brokenLines(400, 99)],
    [tag |-> "SECTION", sels |-> {}, text |-> brokenLines(400, 100)],
    [tag |-> "DIV", sels |-> {}, text |-> fill(40, " ") \o fill(400, "y") \o fill(40, "\n")],
    [tag |-> "SECTION", sels |-> {}, text |-> fill(450, "z")],
    [tag |-> "SPAN", sels |-> {}, text |-> fill(1000, "s")] >>

\* most elements of a document given to the description scan
MaxDescriptionScan == 2

DescriptionDocs == UNION {[1..n -> DOMAIN DescriptionPool] : n \in 0..MaxDescriptionScan}

\* the description fallback block runs, description being '', on the document
\* whose elements are those of DescriptionPool at the indexes d: textElements
\* and the description it leaves
CallDescriptionFallback(d) ==
  /\ pc = "idle"
  /\ pc' = "done"
  /\ op' = "descriptionFallback"
  /\ arg' = d
  /\ LET els == [i \in DOMAIN d |-> DescriptionPool[d[i]]]
     IN  ret' = [textElements |-> textElements(els),
                 description |-> descriptionAfterFallback(<<>>, els)]
  /\ UNCHANGED <<appVars, other, url, doc, _techKeywordsLower, maxAttempts, attempt, probeLog, delays,
                 waitResult, result, trace>>

NextDescription ==
  \/ \E d \in DescriptionDocs : CallDescriptionFallback(d)
  \/ Return

SpecDescription == InitTech /\ [][NextDescription]_vars

-----------------------------------------------------------------------------
(* detectPlatform, on addresses drawn from a bounded set *)

\* what an address is made of
UrlPieces ==
  << <<"h", "t", "t", "p", "s", ":", "/", "/">>,
    <<"w", "w", "w", ".", "l", "i", "n", "k", "e", "d", "i", "n", ".", "c", "o", "m", "/", "j", "o", "b", "s">>,
    <<"b", "o", "a", "r", "d", "s", ".", "g", "r", "e", "e", "n", "h", "o", "u", "s", "e", ".", "i", "o">>,
    <<"j", "o", "b", "s", ".", "l", "e", "v", "e", "r", ".", "c", "o">>,
    <<"/", "a", "c", "m", "e", "/", "1">>,
    <<"?", "r", "e", "f", "=", "l", "i", "n", "k", "e", "d", "i", "n", ".", "c", "o", "m", "/", "j", "o", "b", "s">>,
    <<"e", "x", "a", "m", "p", "l", "e", ".", "c", "o", "m">>,
    <<"w", "w", "w", ".", "l", "i", "n", "k", "e", "d", "i", "n", ".", "c", "o", "m", "/", "f", "e", "e", "d">> >>

\* most pieces in an address
MaxUrlParts == 3

\* the pieces at the indexes p, joined
RECURSIVE joinPieces(_)
joinPieces(p) ==
  IF p = <<>> THEN <<>> ELSE UrlPieces[p[1]] \o joinPieces(SubSeq(p, 2, Len(p)))

DetectUrls ==
  {joinPieces(p) : p \in UNION {[1..n -> DOMAIN UrlPieces] : n \in 0..MaxUrlParts}}

\* detectPlatform() is called while window.location.href is u
CallDetectPlatform(u) ==
  /\ pc = "idle"
  /\ pc' = "done"
  /\ op' = "detectPlatform"
  /\ arg' = u
  /\ ret' = detectPlatform(u)
  /\ UNCHANGED <<appVars, other, url, doc, _techKeywordsLower, maxAttempts, attempt, probeLog, delays,
                 waitResult, result, trace>>

NextDetect ==
  \/ \E u \in DetectUrls : CallDetectPlatform(u)
  \/ Return

SpecDetect == InitTech /\ [][NextDetect]_vars

-----------------------------------------------------------------------------
(* extract() run again on the same page *)

\* the caller keeps what the first extract() resolved to, for a second call
KeepFirst ==
  /\ pc = "done"
  /\ op = "extract"
  /\ arg = <<>>
  /\ arg' = <<result>>
  /\ pc' = "idle"
  /\ op' = "none"
  /\ maxAttempts' = 0
  /\ attempt' = 0
  /\ probeLog' = <<>>
  /\ delays' = 0
  /\ waitResult' = "none"
  /\ result' = <<>>
  /\ trace' = NoTrace
  /\ UNCHANGED <<appVars, other, url, doc, _techKeywordsLower, ret>>

\* any page, at any address, that stays as it is; the cache filled or not
InitTwice ==
  /\ url \in DOMAIN URLs
  /\ doc \in Docs
  /\ _techKeywordsLower \in {<<>>, techKeywordsMapLower}
  /\ Idle

NextTwice ==
  \/ CallExtract
  \/ TimerFires
  \/ ResumeExtractLinkedIn
  \/ KeepFirst
  \/ Return

SpecTwice == InitTwice /\ [][NextTwice]_vars

-----------------------------------------------------------------------------
(* Calls that interleave with extract(): a second extract() and extractTechStack *)

\* waitForLinkedInRender of the second extract() call, from the head of its loop
\* with attempt = a up to the next await or return; fault: the document access
\* of this tick throws
OtherWaitFrom(a, fault) ==
  IF a > DefaultMaxAttempts
  THEN other' = [pc |-> "resume", attempt |-> 0, waitResult |-> "false"]
  ELSE IF fault
  THEN other' = [pc |-> "resume", attempt |-> 0, waitResult |-> "rejected"]
  ELSE IF isReady(pageReadiness(elements(doc)))
  THEN other' = [pc |-> "resume", attempt |-> 0, waitResult |-> "true"]
  ELSE IF a < DefaultMaxAttempts
  THEN other' = [pc |-> "sleeping", attempt |-> a, waitResult |-> "none"]
  ELSE other' = [pc |-> "resume", attempt |-> 0, waitResult |-> "false"]

\* a second extract() is called, by a caller that drops what it resolves to
OtherCallExtract ==
  /\ other.pc = "idle"
  /\ \E fault \in BOOLEAN :
       LET platform == detectPlatform(href)
       IN  CASE platform = "none" ->
                  /\ ~fault
                  /\ UNCHANGED <<other, _techKeywordsLower>>
             [] platform = "linkedin" ->
                  /\ OtherWaitFrom(1, fault)
                  /\ UNCHANGED _techKeywordsLower
             [] platform \in {"greenhouse", "lever"} ->
                  /\ _techKeywordsLower' =
                       IF fault THEN _techKeywordsLower
                       ELSE cacheAfter(extractBody(platform, doc, href, _techKeywordsLower),
                                       _techKeywordsLower)
                  /\ UNCHANGED other
  /\ UNCHANGED <<appVars, url, doc, pc, op, maxAttempts, attempt, probeLog, delays, waitResult,
                 result, trace, arg, ret>>

\* the timer of the second call's inter-tick delay fires (a timer task does not
\* run while a continuation is waiting in the microtask queue)
OtherTimerFires ==
  /\ other.pc = "sleeping"
  /\ pc # "resume"
  /\ \E fault \in BOOLEAN : OtherWaitFrom(other.attempt + 1, fault)
  /\ UNCHANGED <<appVars, url, doc, _techKeywordsLower, pc, op, maxAttempts, attempt, probeLog,
                 delays, waitResult, result, trace, arg, ret>>

\* extractLinkedIn of the second call resumes after its await and runs to its end
OtherResumeExtractLinkedIn ==
  /\ other.pc = "resume"
  /\ other' = OtherIdle
  /\ \E fault \in BOOLEAN :
       _techKeywordsLower' =
         IF fault \/ other.waitResult = "rejected" THEN _techKeywordsLower
         ELSE cacheAfter(extractBody("linkedin", doc, href, _techKeywordsLower),
                         _techKeywordsLower)
  /\ UNCHANGED <<appVars, url, doc, pc, op, maxAttempts, attempt, probeLog, delays, waitResult,
                 result, trace, arg, ret>>

\* the texts given to extractTechStack by other callers
OtherTexts == {Absent, <<"G", "o">>}

\* extractTechStack(text) is called by another caller, which keeps the result
OtherExtractTechStack(text) ==
  /\ _techKeywordsLower' = extractTechStackCache(text, _techKeywordsLower)
  /\ UNCHANGED <<appVars, url, doc, pc, op, maxAttempts, attempt, probeLog, delays, waitResult,
                 result, trace, arg, ret, other>>

\* the elements the page renders while calls interleave: a title heading, a
\* description that names keywords, a block of text for the fallback scan
ParElements == {1, 6, 7}

NextPar ==
  \/ CallExtract
  \/ TimerFires
  \/ ResumeExtractLinkedIn
  \/ Return
  \/ \E e \in ParElements, i \in 1..(Len(doc) + 1) : DocInsert(e, i)
  \/ \E i \in 1..Len(doc) : DocRemove(i)
  \/ \E u \in DOMAIN URLs : Navigate(u)
  \/ OtherCallExtract
  \/ OtherTimerFires
  \/ OtherResumeExtractLinkedIn
  \/ \E text \in OtherTexts : OtherExtractTechStack(text)

SpecPar == Init /\ [][NextPar]_vars

-----------------------------------------------------------------------------
(* Storage: truncateText, saveJob, getAllJobs, deleteJob, clearAllJobs,      *)
(* generateJobId and simpleHash over chrome.storage.local                    *)

MAX_DESCRIPTION_LENGTH == 20000

MAX_ANALYSIS_LENGTH == 30000

MAX_JOBS_COUNT == 100

\* '\n\n[Content truncated to fit storage limits]'
truncationMarker ==
  <<"\n", "\n", "[", "C", "o", "n", "t", "e", "n", "t", " ", "t", "r", "u", "n", "c", "a", "t", "e", "d", " ", "t", "o", " ", "f", "i", "t", " ", "s", "t", "o", "r", "a", "g", "e", " ", "l", "i", "m", "i", "t", "s", "]">>

\* truncateText that also marks a text of exactly maxLength characters
truncateTextBelowCeiling(text, maxLength) ==
  IF falsy(text) THEN <<>>
  ELSE IF Len(text) < maxLength THEN text
  ELSE SubSeq(text, 1, maxLength) \o truncationMarker

\* truncateText(text, maxLength); <<>> stands for ''
truncateText(text, maxLength) ==
  IF falsy(text) THEN <<>>
  ELSE IF Len(text) <= maxLength THEN text
  ELSE SubSeq(text, 1, maxLength) \o truncationMarker

\* the long texts of the jobs given to saveJob: short, of exactly a ceiling,
\* and longer
TextsGiven ==
  << <<"G", "o">>,
     <<"o", "k">>,
     fill(MAX_DESCRIPTION_LENGTH, "d"),
     fill(MAX_DESCRIPTION_LENGTH - 1, "d") \o <<"e", "f", "g">>,
     fill(MAX_ANALYSIS_LENGTH, "a"),
     fill(MAX_ANALYSIS_LENGTH - 1, "a") \o <<"b", "c">> >>

\* the long texts there are: those given and what truncateText makes of them.
\* The description and the analysis of a job are held in the state by their
\* place in this list
Texts ==
  TextsGiven \o
  [i \in DOMAIN TextsGiven |-> truncateText(TextsGiven[i], MAX_DESCRIPTION_LENGTH)] \o
  [i \in DOMAIN TextsGiven |-> truncateText(TextsGiven[i], MAX_ANALYSIS_LENGTH)]

\* the place of text t, and the text at a place
keyOf(t) ==
  <<"text", CHOOSE k \in DOMAIN Texts : Texts[k] = t /\ \A j \in 1..(k - 1) : Texts[j] # t>>

textOf(key) == Texts[key[2]]

\* the characters of code 32 to 126, in the order of their codes (the grave
\* accent, code 96, is written "<96>")
AsciiPrintable ==
  << " ", "!", "\"", "#", "$", "%", "&", "'", "(", ")", "*", "+", ",", "-",
  ".", "/", "0", "1", "2", "3", "4", "5", "6", "7", "8", "9", ":", ";", "<",
  "=", ">", "?", "@", "A", "B", "C", "D", "E", "F", "G", "H", "I", "J", "K",
  "L", "M", "N", "O", "P", "Q", "R", "S", "T", "U", "V", "W", "X", "Y", "Z",
  "[", "\\", "]", "^", "_", "<96>", "a", "b", "c", "d", "e", "f", "g", "h",
  "i", "j", "k", "l", "m", "n", "o", "p", "q", "r", "s", "t", "u", "v", "w",
  "x", "y", "z", "{", "|", "}", "~" >>

\* str.charCodeAt(i) for the character c
charCodeAt(c) == 31 + (CHOOSE i \in DOMAIN AsciiPrintable : AsciiPrintable[i] = c)

\* a 32-bit integer is kept as its two 16-bit halves <<high, low>> (of its
\* two's complement), so that no intermediate value leaves the integers
Half == 65536

\* ((hash << 5) - hash) + char, then hash | 0: 31 * hash + char modulo 2^32
hashStep(hash, char) ==
  LET low == 31 * hash[2] + char
  IN  << (31 * hash[1] + (low \div Half)) % Half, low % Half >>

\* the loop of simpleHash from index i (each value is computed before the next
\* iteration starts)
RECURSIVE hashLoop(_, _, _)
hashLoop(i, str, hash) ==
  IF i > Len(str) THEN hash
  ELSE LET next == hashStep(hash, charCodeAt(str[i]))
       IN  IF next[1] < Half THEN hashLoop(i + 1, str, next) ELSE <<>>

\* Math.abs(hash) of the signed 32-bit integer, as two halves
abs32(hash) ==
  IF hash[1] < Half \div 2 THEN hash
  ELSE IF hash[2] = 0 THEN << (Half - hash[1]) % Half, 0 >>
  ELSE << Half - 1 - hash[1], Half - hash[2] >>

\* simpleHash(str): toString(36) writes the number down, which is kept as it is
simpleHash(str) == abs32(hashLoop(1, str, <<0, 0>>))

\* generateJobId(jobData) at time t: 'job_' urlHash '_' timestamp, as the pair
\* of its two numbers
generateJobId(jobData, t) ==
  <<simpleHash(IF falsy(jobData.url) THEN <<>> ELSE jobData.url), t>>

\* new Date().toISOString() at time t
isoString(t) == <<"at", t>>

\* truncatedFields that leaves the analysis as it is
truncatedFieldsDescriptionOnly(jobData) ==
  [jobData EXCEPT
     !.description = IF falsy(@) THEN @
                     ELSE keyOf(truncateText(textOf(@), MAX_DESCRIPTION_LENGTH))]

\* saveJob's first statements: the large fields truncated in place
truncatedFields(jobData) ==
  [jobData EXCEPT
     !.description = IF falsy(@) THEN @
                     ELSE keyOf(truncateText(textOf(@), MAX_DESCRIPTION_LENGTH)),
     !.analysis = IF falsy(@) THEN @
                  ELSE keyOf(truncateText(textOf(@), MAX_ANALYSIS_LENGTH))]

\* { ...old, ...jobData, updatedAt: new Date().toISOString() }
spread(old, jobData, t) ==
  [f \in DOMAIN old |->
     IF f = "updatedAt" THEN isoString(t)
     ELSE IF jobData[f] # Absent THEN jobData[f] ELSE old[f]]

\* jobs.findIndex(job => job.id === id); 0 stands for -1
findIndex(list, id) ==
  LET found == {i \in DOMAIN list : list[i].id = id}
  IN  IF found = {} THEN 0 ELSE CHOOSE i \in found : \A j \in found : i <= j

\* list.filter(job => job.id !== id)
withoutId(list, id) ==
  LET kept == {i \in DOMAIN list : list[i].id # id}
  IN  [k \in 1..Cardinality(kept) |->
         list[CHOOSE i \in kept : Cardinality({j \in kept : j <= i}) = k]]

\* list.slice(0, n)
slice(list, n) == SubSeq(list, 1, IF Len(list) < n THEN Len(list) ELSE n)

\* saveJob that appends a new job at the end of the list
savedListNewestLast(list, jobData, t) ==
  LET existingIndex == findIndex(list, jobData.id)
  IN  slice(IF existingIndex >= 1
            THEN [list EXCEPT ![existingIndex] = spread(@, jobData, t)]
            ELSE Append(list, jobData),
            MAX_JOBS_COUNT)

\* saveJob from findIndex to slice: the list it writes, jobData having its id
savedList(list, jobData, t) ==
  LET existingIndex == findIndex(list, jobData.id)
  IN  slice(IF existingIndex >= 1
            THEN [list EXCEPT ![existingIndex] = spread(@, jobData, t)]
            ELSE <<jobData>> \o list,
            MAX_JOBS_COUNT)

\* saveJob(jobData) by caller c, up to await this.getAllJobs(): the fields are
\* truncated and chrome.storage.local.get is asked for the list
StartSaveJob(c, jobData) ==
  /\ calls[c].pc = "idle"
  /\ calls' = [calls EXCEPT ![c] = [NoCall EXCEPT !.op = "saveJob", !.pc = "reading",
                                                   !.given = jobData,
                                                   !.jobData = truncatedFields(jobData)]]

\* deleteJob(jobId) by caller c, up to await this.getAllJobs()
StartDeleteJob(c, jobId) ==
  /\ calls[c].pc = "idle"
  /\ calls' = [calls EXCEPT ![c] = [NoCall EXCEPT !.op = "deleteJob", !.pc = "reading",
                                                   !.jobId = jobId]]

\* clearAllJobs() by caller c, up to await chrome.storage.local.set
StartClearAllJobs(c) ==
  /\ calls[c].pc = "idle"
  /\ calls' = [calls EXCEPT ![c] = [NoCall EXCEPT !.op = "clearAllJobs", !.pc = "writing"]]

\* getAllJobs() returns to saveJob or deleteJob of caller c (its catch gives []
\* when the read failed); the call runs up to await chrome.storage.local.set
StorageGet(c) ==
  /\ calls[c].pc = "reading"
  /\ \E fault \in BOOLEAN :
       LET list == IF fault THEN <<>> ELSE jobs
       IN  IF calls[c].op = "saveJob"
           THEN LET jobData == IF falsy(calls[c].jobData.id)
                               THEN [calls[c].jobData EXCEPT
                                       !.id = generateJobId(calls[c].jobData, now)]
                               ELSE calls[c].jobData
                IN  calls' = [calls EXCEPT ![c].pc = "writing", ![c].jobData = jobData,
                                           ![c].readFault = fault,
                                           ![c].pending = savedList(list, jobData, now)]
           ELSE LET filteredJobs == withoutId(list, calls[c].jobId)
                IN  IF Len(filteredJobs) = Len(list)
                    THEN calls' = [calls EXCEPT ![c].pc = "done", ![c].ret = "false",
                                                ![c].readFault = fault]
                    ELSE calls' = [calls EXCEPT ![c].pc = "writing",
                                                ![c].readFault = fault,
                                                ![c].pending = filteredJobs]
  /\ UNCHANGED <<jobs, now, notStorageVars>>

\* chrome.storage.local.set({ jobs: ... }) of caller c takes effect, or fails
\* and the call returns false from its catch
StorageSet(c) ==
  /\ calls[c].pc = "writing"
  /\ \E fault \in BOOLEAN :
       IF fault
       THEN /\ calls' = [calls EXCEPT ![c].pc = "done", ![c].ret = "false",
                                      ![c].writeFault = TRUE]
            /\ UNCHANGED jobs
       ELSE /\ calls' = [calls EXCEPT ![c].pc = "written"]
            /\ jobs' = calls[c].pending
  /\ UNCHANGED <<now, notStorageVars>>

\* the call of caller c resumes after the write and returns true
StorageReturns(c) ==
  /\ calls[c].pc = "written"
  /\ calls' = [calls EXCEPT ![c].pc = "done", ![c].ret = "true"]
  /\ UNCHANGED <<jobs, now, notStorageVars>>

\* the caller has taken the outcome
StorageTaken(c) ==
  /\ calls[c].pc = "done"
  /\ calls' = [calls EXCEPT ![c] = NoCall]
  /\ UNCHANGED <<jobs, now, notStorageVars>>

\* a direct call Storage.saveJob(jobData)
CallSaveJob(c, jobData) ==
  /\ StartSaveJob(c, jobData)
  /\ UNCHANGED <<jobs, now, notStorageVars>>

\* a direct call Storage.deleteJob(jobId)
CallDeleteJob(c, jobId) ==
  /\ StartDeleteJob(c, jobId)
  /\ UNCHANGED <<jobs, now, notStorageVars>>

\* a direct call Storage.clearAllJobs()
CallClearAllJobs(c) ==
  /\ StartClearAllJobs(c)
  /\ UNCHANGED <<jobs, now, notStorageVars>>

\* most milliseconds that pass in a run
MaxTicks == 1

\* a millisecond passes
Tick(last) ==
  /\ now < last
  /\ now' = now + 1
  /\ UNCHANGED <<jobs, calls, notStorageVars>>

\* the record extract() gives for the posting at address u, as the background
\* receives it
postingAt(u) ==
  [EmptyJob EXCEPT !.url = URLs[u], !.jobTitle = <<"S", "R", "E">>,
                   !.description = keyOf(<<"G", "o">>)]

\* the entry saveJob stored for the posting at address u saved at time t
savedAt(u, t) == [postingAt(u) EXCEPT !.id = generateJobId(postingAt(u), t)]

\* the list after the posting at URLs[1] was saved once in each of the last n
\* milliseconds up to MAX_JOBS_COUNT, the newest first
history(n) == SubSeq([i \in 1..n |-> savedAt(1, MAX_JOBS_COUNT - i + 1)], 1, n)

\* the lengths of the list the cap is checked from
CapStarts == {0, MAX_JOBS_COUNT - 1, MAX_JOBS_COUNT}

\* the jobs given to saveJob: a posting without id, or the oldest entry of
\* the full history with an analysis attached
CapJobs ==
  {postingAt(1)} \cup
  {[savedAt(1, 1) EXCEPT !.analysis = keyOf(<<"o", "k">>), !.analyzedAt = isoString(1)]}

\* the ids given to deleteJob: the newest of the histories, and one that was
\* never stored
CapIds == {savedAt(1, MAX_JOBS_COUNT).id, savedAt(3, 0).id}

InitCap ==
  /\ ExtractorAtRest
  /\ \E n \in CapStarts : jobs = history(n)
  /\ now = MAX_JOBS_COUNT
  /\ calls = [c \in StorageCalls |-> NoCall]
  /\ ScriptsAtRest

\* one Storage call after the other
NextCap ==
  \/ \E jobData \in CapJobs : CallSaveJob(1, jobData)
  \/ \E jobId \in CapIds : CallDeleteJob(1, jobId)
  \/ CallClearAllJobs(1)
  \/ StorageGet(1)
  \/ StorageSet(1)
  \/ StorageReturns(1)
  \/ StorageTaken(1)
  \/ Tick(MAX_JOBS_COUNT + MaxTicks)

SpecCap == InitCap /\ [][NextCap]_vars

\* the jobs given to saveJob: the posting with each text as its description,
\* and as its analysis or without analysis
TruncJobs ==
  {[postingAt(1) EXCEPT !.description = keyOf(TextsGiven[d]), !.analysis = a] :
     d \in DOMAIN TextsGiven, a \in {Absent} \cup {keyOf(TextsGiven[i]) : i \in DOMAIN TextsGiven}}

InitTrunc ==
  /\ ExtractorAtRest
  /\ AppIdle

\* jobs with large texts are saved, and stored entries are saved again (all
\* within one millisecond: the posting keeps its id)
NextTrunc ==
  \/ \E jobData \in TruncJobs : CallSaveJob(1, jobData)
  \/ \E i \in DOMAIN jobs : CallSaveJob(1, jobs[i])
  \/ StorageGet(1)
  \/ StorageSet(1)
  \/ StorageReturns(1)
  \/ StorageTaken(1)

SpecTrunc == InitTrunc /\ [][NextTrunc]_vars

-----------------------------------------------------------------------------
(* The background service worker: the analyzeJob message *)

startsWith(t, prefix) ==
  Len(t) >= Len(prefix) /\ SubSeq(t, 1, Len(prefix)) = prefix

\* ClaudeClient.validateApiKey (the keys of the model are strings)
validateApiKey(apiKey) ==
  /\ ~falsy(apiKey)
  /\ startsWith(trim(apiKey), <<"s", "k", "-", "a", "n", "t", "-">>)
  /\ Len(apiKey) > 20

\* what Storage.getApiKey() resolves to: null, a key of another format, a
\* Claude key
ApiKeys ==
  {<<>>,
   <<"s", "k", "-", "b", "a", "d">>,
   <<"s", "k", "-", "a", "n", "t", "-">> \o fill(14, "x")}

\* the messages of the errors ClaudeClient.analyzeJob rejects with after the
\* request was sent
ApiFailures ==
  {"Request timeout - Claude API took too long to respond",
   "Failed to fetch",
   "API request failed with status 401",
   "Rate limit exceeded"}

\* sanitizeErrorMessage on the messages of the model: none of them holds a
\* stack trace or a path or is longer than 200 characters, three kinds are
\* replaced by a friendly text
sanitizeErrorMessage(message) ==
  CASE message = "Failed to fetch" ->
         "Network error. Please check your internet connection."
    [] message = "API request failed with status 401" ->
         "Invalid API key. Please check your Claude API key in settings."
    [] message = "Rate limit exceeded" ->
         "Rate limit exceeded. Please try again in a few moments."
    [] OTHER -> message

\* the value of the analysisError property
analysisErrorOf(message) == <<"error", sanitizeErrorMessage(message)>>

\* the texts data.content[0].text || '' of a response
AnalysisTexts == {keyOf(<<"o", "k">>), keyOf(TextsGiven[6]), <<>>}

\* the data of an analyzeJob message: a posting, one without description
HandlerJobs ==
  {postingAt(1), postingAt(3), [postingAt(1) EXCEPT !.description = <<>>]}

\* most analyzeJob messages in a run
MaxMessages == 2

\* the catch block of handleAnalyzeJob up to await Storage.saveJob
HandlerCatches(message) ==
  /\ handler' = [handler EXCEPT !.pc = "saveJobAfterError", !.error = message]
  /\ StartSaveJob(1, [handler.jobData EXCEPT !.analysisError = analysisErrorOf(message)])

\* the onMessage listener receives { action: 'analyzeJob', data }:
\* handleAnalyzeJob(request.data) runs up to await Storage.getApiKey()
OnMessageAnalyzeJob(data) ==
  /\ handler.pc = "idle"
  /\ handler.served < MaxMessages
  /\ handler' = [NoHandler EXCEPT !.pc = "getApiKey", !.jobData = data,
                                  !.served = handler.served + 1]
  /\ UNCHANGED <<storageVars, notHandlerVars>>

\* getApiKey() has resolved: the key is checked and ClaudeClient.analyzeJob is
\* called, or the error thrown is caught
HandlerGotApiKey ==
  /\ handler.pc = "getApiKey"
  /\ \E apiKey \in ApiKeys :
       IF falsy(apiKey)
       THEN HandlerCatches("No API key configured. Please set your Claude API key in the extension popup.")
       ELSE IF ~validateApiKey(apiKey)
       THEN HandlerCatches("Invalid API key format. Please check your Claude API key.")
       ELSE /\ handler' = [handler EXCEPT !.pc = "analyzeJob", !.apiKey = apiKey]
            /\ UNCHANGED calls
  /\ UNCHANGED <<jobs, now, notHandlerVars>>

\* ClaudeClient.analyzeJob has settled: the job is given to saveJob with the
\* analysis and its time, or the error is caught
HandlerAnalyzed ==
  /\ handler.pc = "analyzeJob"
  /\ IF falsy(handler.jobData.description)
     THEN HandlerCatches("Invalid job data provided")
     ELSE \/ \E message \in ApiFailures : HandlerCatches(message)
          \/ \E text \in AnalysisTexts :
               LET analysisResult == [analysis |-> text, analyzedAt |-> isoString(now)]
               IN  /\ handler' = [handler EXCEPT !.pc = "saveJob",
                                                 !.analysisResult = analysisResult]
                   /\ StartSaveJob(1, [handler.jobData EXCEPT
                                         !.analysis = analysisResult.analysis,
                                         !.analyzedAt = analysisResult.analyzedAt])
  /\ UNCHANGED <<jobs, now, notHandlerVars>>

\* saveJob has returned (what it returned is not looked at): handleAnalyzeJob
\* returns its result or throws the error again, and the listener answers
HandlerSaved ==
  /\ handler.pc \in {"saveJob", "saveJobAfterError"}
  /\ calls[1].pc = "done"
  /\ handler' =
       [handler EXCEPT
          !.pc = "responded",
          !.response =
            IF handler.pc = "saveJob"
            THEN [NoResponse EXCEPT !.success = TRUE,
                                    !.analysis = handler.analysisResult.analysis,
                                    !.jobId = calls[1].jobData.id]
            ELSE [NoResponse EXCEPT !.success = FALSE,
                                    !.error = sanitizeErrorMessage(handler.error)]]
  /\ calls' = [calls EXCEPT ![1] = NoCall]
  /\ UNCHANGED <<jobs, now, notHandlerVars>>

\* the requester has the response
HandlerTaken ==
  /\ handler.pc = "responded"
  /\ handler' = [NoHandler EXCEPT !.served = handler.served]
  /\ UNCHANGED <<storageVars, notHandlerVars>>

InitHandler ==
  /\ ExtractorAtRest
  /\ AppIdle

NextHandler ==
  \/ \E data \in HandlerJobs : OnMessageAnalyzeJob(data)
  \/ HandlerGotApiKey
  \/ HandlerAnalyzed
  \/ StorageGet(1)
  \/ StorageSet(1)
  \/ StorageReturns(1)
  \/ HandlerSaved
  \/ HandlerTaken
  \/ Tick(MaxTicks)

SpecHandler == InitHandler /\ [][NextHandler]_vars

-----------------------------------------------------------------------------
(* The content script: the analyze button and the message to the background *)

BUTTON_RESET_DELAY == 3000
MESSAGE_TIMEOUT == 30000
RATE_LIMIT_COOLDOWN == 2000
FETCH_TIMEOUT == 60000

\* how long the Claude API takes to answer a request, in milliseconds
Latencies == {1000, 45000, 70000}

\* the longest step of the clock while no timer is due
Quantum == 1000

\* how long the page is watched while nothing is pending
Horizon == 4000

\* most clicks on the button in a run
MaxClicks == 3

\* Date.now() when the content script is loaded: later than a cooldown
\* after the 0 lastAnalyzeTime starts at
PageLoadedAt == RATE_LIMIT_COOLDOWN

\* the Promise an async function returned, and what it resolves to
promiseOf(value) == <<"Promise", value>>

\* window.JobExtractor?.extract(): extract is an async function
optionalExtract(loaded, extracted) ==
  IF loaded THEN promiseOf(extracted) ELSE Absent

\* what the background receives for a value given as the data of a message:
\* a Promise has no own enumerable property and arrives as {}
serialized(value) ==
  IF value \in {Absent, <<>>} THEN value
  ELSE IF value[1] = "Promise" THEN EmptyJob
  ELSE value[1]

\* when the background answers message m: analyzeJob of the Claude client
\* rejects at once for data without description, else when the API has
\* answered or fetchWithTimeout's timer has aborted the request
answersAt(m) ==
  IF falsy(m.data.description) THEN m.sentAt
  ELSE IF m.apiLatency < FETCH_TIMEOUT THEN m.sentAt + m.apiLatency
  ELSE m.sentAt + FETCH_TIMEOUT

\* the answer of the background to message m (an API key is stored)
answerTo(m) ==
  IF falsy(m.data.description)
  THEN [NoResponse EXCEPT !.error = sanitizeErrorMessage("Invalid job data provided")]
  ELSE IF m.apiLatency < FETCH_TIMEOUT
  THEN [NoResponse EXCEPT !.success = TRUE, !.analysis = keyOf(<<"o", "k">>),
                          !.jobId = generateJobId(m.data, answersAt(m))]
  ELSE [NoResponse EXCEPT
          !.error = sanitizeErrorMessage("Request timeout - Claude API took too long to respond")]

\* the messages the background has not answered yet
inFlight == {i \in DOMAIN channel : channel[i].state = "inFlight"}

\* the times at which something is due
deadlines ==
  content.resetAt \cup {content.timeoutAt[i] : i \in DOMAIN content.timeoutAt}
                  \cup {answersAt(channel[i]) : i \in inFlight}

\* sendMessageWithTimeout(message) called with script state c: the timer is
\* set and the message is on its way (the API is called, and takes latency,
\* for data with a description)
sendMessageWithTimeout(c, data, latency) ==
  /\ channel' = Append(channel, [data |-> data, sentAt |-> now,
                                 apiLatency |-> IF falsy(data.description) THEN 0 ELSE latency,
                                 state |-> "inFlight", extracted |-> c.extracted])
  /\ content' = [c EXCEPT !.port = Len(channel) + 1,
                          !.timeoutAt = <<now + MESSAGE_TIMEOUT>>,
                          !.settled = "pending"]

\* the finally block of handleAnalyzeClick
finally(c) == [c EXCEPT !.resetAt = @ \cup {now + BUTTON_RESET_DELAY}]

\* handleAnalyzeClick that sets lastAnalyzeTime and leaves isProcessing as it is
HandleAnalyzeClickWithoutFlag(loaded, extracted, latency) ==
  /\ content.clicks < MaxClicks
  /\ LET clicked == [content EXCEPT !.clicks = @ + 1]
     IN  IF now - content.lastAnalyzeTime < RATE_LIMIT_COOLDOWN
         THEN /\ content' = [clicked EXCEPT !.notification = "Please wait"]
              /\ UNCHANGED channel
         ELSE LET jobData == optionalExtract(loaded, extracted)
                  started == [clicked EXCEPT !.lastAnalyzeTime = now,
                                             !.button = "processing",
                                             !.jobData = jobData,
                                             !.extracted = extracted]
              IN  IF jobData = Absent
                  THEN /\ content' = finally([started EXCEPT
                                       !.notification = "Could not extract job data",
                                       !.button = "error"])
                       /\ UNCHANGED channel
                  ELSE sendMessageWithTimeout([started EXCEPT !.pc = "awaiting"],
                                              serialized(jobData), latency)
  /\ UNCHANGED <<now, notContentVars>>

\* a click on the button: handleAnalyzeClick up to its return or to await
\* sendMessageWithTimeout. extract() of the page resolves to extracted if
\* JobExtractor is loaded
HandleAnalyzeClick(loaded, extracted, latency) ==
  /\ content.clicks < MaxClicks
  /\ LET clicked == [content EXCEPT !.clicks = @ + 1]
     IN  IF content.isProcessing
         THEN /\ content' = clicked
              /\ UNCHANGED channel
         ELSE IF now - content.lastAnalyzeTime < RATE_LIMIT_COOLDOWN
         THEN /\ content' = [clicked EXCEPT !.notification = "Please wait"]
              /\ UNCHANGED channel
         ELSE LET jobData == optionalExtract(loaded, extracted)
                  started == [clicked EXCEPT !.lastAnalyzeTime = now,
                                             !.isProcessing = TRUE,
                                             !.button = "processing",
                                             !.jobData = jobData,
                                             !.extracted = extracted]
              IN  IF jobData = Absent
                  THEN /\ content' = finally([started EXCEPT
                                       !.notification = "Could not extract job data",
                                       !.button = "error"])
                       /\ UNCHANGED channel
                  ELSE sendMessageWithTimeout([started EXCEPT !.pc = "awaiting"],
                                              serialized(jobData), latency)
  /\ UNCHANGED <<now, notContentVars>>

\* a direct call sendMessageWithTimeout({ action: 'analyzeJob', data })
CallSendMessageWithTimeout(data, latency) ==
  /\ content.pc = "idle"
  /\ Len(channel) < MaxMessages
  /\ sendMessageWithTimeout([NoContent EXCEPT !.pc = "called"], data, latency)
  /\ UNCHANGED <<now, notContentVars>>

\* the promise of sendMessageWithTimeout resolves with response or rejects
\* with error; handleAnalyzeClick, when it awaits the promise, runs to its end
settles(c, resolved, response, error) ==
  LET settled == [c EXCEPT !.settled = IF resolved THEN "resolved" ELSE "rejected",
                           !.response = response, !.error = error,
                           !.timeoutAt = <<>>]
  IN  IF c.pc # "awaiting" THEN [settled EXCEPT !.pc = "settled"]
      ELSE finally([settled EXCEPT
             !.pc = "idle",
             !.button = IF resolved /\ response.success THEN "success" ELSE "error",
             !.notification =
               IF ~resolved THEN "Error communicating with extension. Please try again."
               ELSE IF response.success
               THEN "Job analyzed successfully! Check the extension popup."
               ELSE response.error])

\* the background answers message i: the callback clears the timer and
\* resolves the promise, which has no effect on a promise that is settled
BackgroundAnswers(i) ==
  /\ i \in inFlight
  /\ now = answersAt(channel[i])
  /\ channel' = [channel EXCEPT ![i].state = "answered"]
  /\ content' = IF content.port = i /\ content.settled = "pending"
                THEN settles(content, TRUE, answerTo(channel[i]), "none")
                ELSE content
  /\ UNCHANGED <<now, notContentVars>>

\* the port of message i is closed without an answer: the callback runs with
\* chrome.runtime.lastError set
ConnectionFails(i) ==
  /\ i \in inFlight
  /\ channel' = [channel EXCEPT ![i].state = "failed"]
  /\ content' = IF content.port = i /\ content.settled = "pending"
                THEN settles(content, FALSE, NoResponse,
                             "The message port closed before a response was received.")
                ELSE content
  /\ UNCHANGED <<now, notContentVars>>

\* the timer of sendMessageWithTimeout fires
MessageTimeout ==
  /\ content.timeoutAt # <<>>
  /\ now = content.timeoutAt[1]
  /\ content' = IF content.settled = "pending"
                THEN settles(content, FALSE, NoResponse,
                             "Background script communication timeout")
                ELSE [content EXCEPT !.timeoutAt = <<>>]
  /\ UNCHANGED <<now, channel, notContentVars>>

\* the timer set in the finally block fires
ButtonReset ==
  /\ now \in content.resetAt
  /\ content' = [content EXCEPT !.isProcessing = FALSE, !.button = "default",
                                !.resetAt = @ \ {now}]
  /\ UNCHANGED <<now, channel, notContentVars>>

\* the caller of sendMessageWithTimeout has the outcome
OutcomeTaken ==
  /\ content.pc = "settled"
  /\ content' = NoContent
  /\ UNCHANGED <<now, channel, notContentVars>>

\* time passes, up to the next time something is due: by a step of the clock
\* or all the way
Elapse ==
  /\ \E t \in {now + Quantum} \cup deadlines :
       /\ t > now
       /\ \A d \in deadlines : now <= d /\ t <= d
       /\ deadlines = {} => t <= PageLoadedAt + Horizon
       /\ now' = t
  /\ UNCHANGED <<content, channel, notContentVars>>

\* what extract() resolves to on the pages of the model
Extractions == {<<>>, <<postingAt(1)>>}

InitContent ==
  /\ ExtractorAtRest
  /\ jobs = <<>>
  /\ calls = [c \in StorageCalls |-> NoCall]
  /\ now = PageLoadedAt
  /\ ScriptsAtRest

\* the button is clicked. The timer of sendMessageWithTimeout is set and
\* cleared and never fires: the data of the messages has no description, and
\* the background answers them at once
NextContent ==
  \/ \E loaded \in BOOLEAN, extracted \in Extractions, latency \in Latencies :
       HandleAnalyzeClick(loaded, extracted, latency)
  \/ \E i \in DOMAIN channel : BackgroundAnswers(i)
  \/ \E i \in DOMAIN channel : ConnectionFails(i)
  \/ ButtonReset
  \/ Elapse

SpecContent == InitContent /\ [][NextContent]_vars

\* the button is clicked and every timer that is due fires, every message is
\* answered and time passes
SpecContentLive ==
  /\ SpecContent
  /\ WF_vars(\E i \in DOMAIN channel : BackgroundAnswers(i))
  /\ WF_vars(ButtonReset)
  /\ WF_vars(Elapse)

\* sendMessageWithTimeout is called with the job of a posting
NextTimeout ==
  \/ \E latency \in Latencies : CallSendMessageWithTimeout(postingAt(1), latency)
  \/ \E i \in DOMAIN channel : BackgroundAnswers(i)
  \/ MessageTimeout
  \/ OutcomeTaken
  \/ Elapse

SpecTimeout == InitContent /\ [][NextTimeout]_vars

-----------------------------------------------------------------------------
(* The background service worker: auto-analysis when a tab has loaded *)

\* the texts the patterns of isJobPostingUrl look for, whatever the case
jobPatterns ==
  {<<"l", "i", "n", "k", "e", "d", "i", "n", ".", "c", "o", "m", "/", "j", "o", "b", "s", "/">>,
   <<"b", "o", "a", "r", "d", "s", ".", "g", "r", "e", "e", "n", "h", "o", "u", "s", "e", ".", "i", "o", "/">>,
   <<"j", "o", "b", "s", ".", "l", "e", "v", "e", "r", ".", "c", "o", "/">>}

\* isJobPostingUrl of the address at u of URLs (0: the tab has no url)
isJobPostingUrl(u) ==
  /\ u # 0
  /\ \E pattern \in jobPatterns : includes(toLowerCase(URLs[u]), pattern)

\* the addresses of the tabs that load: none, two postings, another page
AutoUrls == {0, 1, 3, 4}

\* most tabs.onUpdated events in a run
MaxEvents == 3

\* the history holds a job of this address with an analysis
existingJob(list, u) ==
  \E i \in DOMAIN list : list[i].url = URLs[u] /\ ~falsy(list[i].analysis)

\* the listener l returns
listenerReturns(l, a) == [a EXCEPT !.listeners[l] = NoListener]

\* tabs.onUpdated fires for the tab with this status and address: listener l
\* runs up to its first return or to await Storage.getSettings()
OnUpdated(l, tabId, status, u) ==
  /\ auto.listeners[l].pc = "idle"
  /\ auto.events < MaxEvents
  /\ LET heard == [auto EXCEPT !.events = @ + 1]
     IN  auto' = IF \/ status # "complete"
                    \/ u = 0
                    \/ ~isJobPostingUrl(u)
                    \/ u \in auto.analyzedUrls
                 THEN heard
                 ELSE [heard EXCEPT !.listeners[l] =
                         [pc |-> "getSettings", tabId |-> tabId, url |-> u]]
  /\ UNCHANGED notAutoVars

\* getSettings() has resolved
ListenerGotSettings(l) ==
  /\ auto.listeners[l].pc = "getSettings"
  /\ auto' = IF ~auto.autoAnalyze THEN listenerReturns(l, auto)
             ELSE [auto EXCEPT !.listeners[l].pc = "getApiKey"]
  /\ UNCHANGED notAutoVars

\* getApiKey() has resolved
ListenerGotApiKey(l) ==
  /\ auto.listeners[l].pc = "getApiKey"
  /\ auto' = IF falsy(auto.apiKey) THEN listenerReturns(l, auto)
             ELSE [auto EXCEPT !.listeners[l].pc = "getAllJobs"]
  /\ UNCHANGED notAutoVars

\* ListenerGotJobs that marks the address only if it is still unmarked, and
\* returns otherwise
ListenerGotJobsChecksAgain(l) ==
  /\ auto.listeners[l].pc = "getAllJobs"
  /\ \E fault \in BOOLEAN :
       LET list == IF fault THEN <<>> ELSE jobs
           u == auto.listeners[l].url
           marked == [listenerReturns(l, auto) EXCEPT !.analyzedUrls = @ \cup {u}]
       IN  auto' = IF existingJob(list, u) THEN marked
                   ELSE IF u \in auto.analyzedUrls THEN listenerReturns(l, auto)
                   ELSE [marked EXCEPT !.timers = @ \cup
                           {[tabId |-> auto.listeners[l].tabId, url |-> u, by |-> l]}]
  /\ UNCHANGED notAutoVars

\* getAllJobs() has resolved (with [] when the read failed): the address is
\* marked as analyzed and, unless an analysed job of it is stored, the timer
\* of the autoAnalyze message is set
ListenerGotJobs(l) ==
  /\ auto.listeners[l].pc = "getAllJobs"
  /\ \E fault \in BOOLEAN :
       LET list == IF fault THEN <<>> ELSE jobs
           u == auto.listeners[l].url
           marked == [listenerReturns(l, auto) EXCEPT !.analyzedUrls = @ \cup {u}]
       IN  auto' = IF existingJob(list, u) THEN marked
                   ELSE [marked EXCEPT !.timers = @ \cup
                           {[tabId |-> auto.listeners[l].tabId, url |-> u, by |-> l]}]
  /\ UNCHANGED notAutoVars

\* the timer fires: chrome.tabs.sendMessage(tabId, { action: 'autoAnalyze' })
AutoAnalyzeSent(timer) ==
  /\ timer \in auto.timers
  /\ auto' = [auto EXCEPT !.timers = @ \ {timer},
                          !.sends = Append(@, [tabId |-> timer.tabId, url |-> timer.url,
                                               state |-> "sent"])]
  /\ UNCHANGED notAutoVars

\* the message is answered, or sending it failed and the address is unmarked
AutoAnalyzeSettles(i, failed) ==
  /\ i \in DOMAIN auto.sends
  /\ auto.sends[i].state = "sent"
  /\ auto' = IF failed
             THEN [auto EXCEPT !.sends[i].state = "failed",
                               !.analyzedUrls = @ \ {auto.sends[i].url}]
             ELSE [auto EXCEPT !.sends[i].state = "answered"]
  /\ UNCHANGED notAutoVars

\* the entry of the posting at address u with an analysis
analysedAt(u, t) ==
  [savedAt(u, t) EXCEPT !.analysis = keyOf(<<"o", "k">>), !.analyzedAt = isoString(t)]

\* the history of the auto-analysis runs: empty, or a job of the first
\* posting without or with an analysis
InitAuto ==
  /\ ExtractorAtRest
  /\ jobs \in {<<>>, <<savedAt(1, 0)>>, <<analysedAt(1, 0)>>}
  /\ calls = [c \in StorageCalls |-> NoCall]
  /\ now = 0
  /\ handler = NoHandler
  /\ content = NoContent
  /\ channel = <<>>
  /\ \E autoAnalyze \in BOOLEAN, apiKey \in ApiKeys \ {<<"s", "k", "-", "b", "a", "d">>} :
       auto = [NoAuto EXCEPT !.autoAnalyze = autoAnalyze, !.apiKey = apiKey]

NextAuto ==
  \/ \E l \in Listeners, status \in {"loading", "complete"}, u \in AutoUrls :
       OnUpdated(l, 1, status, u)
  \/ \E l \in Listeners : ListenerGotSettings(l)
  \/ \E l \in Listeners : ListenerGotApiKey(l)
  \/ \E l \in Listeners : ListenerGotJobs(l)
  \/ \E timer \in auto.timers : AutoAnalyzeSent(timer)
  \/ \E i \in DOMAIN auto.sends, failed \in BOOLEAN : AutoAnalyzeSettles(i, failed)

SpecAuto == InitAuto /\ [][NextAuto]_vars

-----------------------------------------------------------------------------
(* Storage calls that overlap *)

\* the jobs given to saveJob, and the ids given to deleteJob, by the two callers
OverlapJobs == {postingAt(1), postingAt(3)}

OverlapIds == {savedAt(1, 0).id}

InitOverlap ==
  /\ ExtractorAtRest
  /\ jobs \in {<<>>, <<savedAt(1, 0)>>}
  /\ calls = [c \in StorageCalls |-> NoCall]
  /\ now = 0
  /\ ScriptsAtRest

\* the onMessage listener and handleAnalyzeJob call Storage while another
\* call is at an await (all within one millisecond)
NextOverlap ==
  \/ \E c \in StorageCalls, jobData \in OverlapJobs : CallSaveJob(c, jobData)
  \/ \E c \in StorageCalls, jobId \in OverlapIds : CallDeleteJob(c, jobId)
  \/ \E c \in StorageCalls : StorageGet(c)
  \/ \E c \in StorageCalls : StorageSet(c)
  \/ \E c \in StorageCalls : StorageReturns(c)
  \/ \E c \in StorageCalls : StorageTaken(c)

SpecOverlap == InitOverlap /\ [][NextOverlap]_vars

-----------------------------------------------------------------------------
(* Claims *)

\* the selectors of a list whose first matching element has non-empty trimmed text
yielding(selectors, els) ==
  {i \in DOMAIN selectors : queryText(els, selectors[i]) # <<>>}

\* C1: _trySelectors returns the trimmed text of the first selector, in list
\* order, whose matching element has non-empty trimmed text, also when a later
\* selector would match; it returns the empty string when the list is empty or
\* no selector yields text, and a selector that matches nothing is passed over.
C1_TrySelectorsFirstNonEmpty ==
  (pc = "done" /\ op = "_trySelectors") =>
    LET els == elements(doc)
        y   == yielding(arg, els)
    IN  IF y = {} THEN ret = <<>>
        ELSE \E i \in y : /\ \A j \in y : i <= j
                          /\ ret = queryText(els, arg[i])
                          /\ ret # <<>>

\* C1 witness: the first selector matches nothing, two later selectors yield
\* different texts, and the earlier of the two is returned.
C1_Witness ==
  /\ pc = "done" /\ op = "_trySelectors"
  /\ Len(arg) = 3
  /\ querySelector(elements(doc), arg[1]) = <<>>
  /\ yielding(arg, elements(doc)) = {2, 3}
  /\ queryText(elements(doc), arg[2]) # queryText(elements(doc), arg[3])
  /\ ret = queryText(elements(doc), arg[2])

\* C2: waitForLinkedInRender returns true on the first tick at which a readiness
\* probe holds, after exactly that many probe evaluations: no tick and no delay
\* follows the successful tick.
C2_WaitShortCircuits ==
  /\ \A i \in DOMAIN probeLog :
       probeLog[i] => (i = Len(probeLog) /\ pc = "done" /\ waitResult = "true")
  /\ (pc = "done" /\ op = "wait" /\ waitResult = "true") =>
       /\ Len(probeLog) >= 1
       /\ probeLog[Len(probeLog)]
       /\ Len(probeLog) = attempt
       /\ attempt <= maxAttempts
       /\ delays = attempt - 1
       /\ isReady(pageReadiness(elements(doc)))

\* C2 witness: a call with maxAttempts = 3 whose document became ready between
\* the first and the second tick returned true after 2 ticks and 1 delay.
C2_Witness ==
  /\ pc = "done" /\ op = "wait" /\ maxAttempts = 3
  /\ waitResult = "true"
  /\ probeLog = <<FALSE, TRUE>>
  /\ delays = 1

\* C3: if no readiness probe holds on any tick (and the document access does
\* not fail), waitForLinkedInRender returns false after exactly maxAttempts
\* ticks, and does not reject.
C3_WaitExhausts ==
  (/\ pc = "done" /\ op = "wait"
   /\ ~trace.docFault
   /\ \A i \in DOMAIN probeLog : ~probeLog[i]) =>
    /\ waitResult = "false"
    /\ Len(probeLog) = maxAttempts
    /\ delays = (IF maxAttempts = 0 THEN 0 ELSE maxAttempts - 1)

\* C3 witness: a call with maxAttempts = 2 on a document that never got ready
\* returned false after 2 ticks.
C3_Witness ==
  /\ pc = "done" /\ op = "wait" /\ maxAttempts = 2
  /\ waitResult = "false"
  /\ probeLog = <<FALSE, FALSE>>
  /\ ~trace.docFault

\* C4: if the document access throws at any point of a platform extraction, the
\* readiness wait of extractLinkedIn included, extract() resolves to null: the
\* error is caught, and no record, partial or not, is returned.
C4_HardFaultGivesNull ==
  /\ (pc = "done" /\ op = "extract" /\ trace.docFault) => (result = <<>> /\ trace.caught)
  /\ (pc = "resume" /\ trace.docFault) => waitResult = "rejected"
  /\ trace.caught => (pc = "done" /\ result = <<>>)

\* C4 witness: the document access threw during the readiness wait, on a
\* document with markup, and extract() resolved to null.
C4_Witness ==
  /\ pc = "done" /\ op = "extract"
  /\ trace.docFault /\ trace.caught
  /\ waitResult = "rejected"
  /\ doc # <<>>
  /\ result = <<>>

\* the value a platform's extractor resolves for one field, each on its own
titleOf(platform, els) ==
  CASE platform = "linkedin" ->
         LET t == _trySelectors(jobTitleSelectors, els)
         IN  IF t # <<>> THEN t
             ELSE IF headingElements(els) # <<>> THEN headingElements(els)[1].text ELSE <<>>
    [] platform = "greenhouse" -> queryText(els, "h1.app-title")
    [] platform = "lever" -> queryText(els, ".posting-headline h2")

companyOf(platform, els) ==
  CASE platform = "linkedin" -> _trySelectors(companySelectors, els)
    [] platform = "greenhouse" -> queryText(els, ".company-name")
    [] platform = "lever" -> queryText(els, ".main-header-text-item-1")

descriptionOf(platform, els) ==
  CASE platform = "linkedin" ->
         LET t == _trySelectors(descriptionSelectors, els)
         IN  IF t # <<>> THEN t
             ELSE IF textElements(els) # <<>> THEN trim(textElements(els)[1].text) ELSE <<>>
    [] platform = "greenhouse" -> queryText(els, "#content, .content")
    [] platform = "lever" -> queryText(els, ".content, .section-wrapper")

locationOf(platform, els) ==
  CASE platform = "linkedin" -> _trySelectors(locationSelectors, els)
    [] platform = "greenhouse" -> queryText(els, ".location")
    [] platform = "lever" -> queryText(els, ".location, .posting-categories .location")

\* C5: a field that fails to resolve, also when the fallback scan leaves no
\* candidate, is the empty string in a record that is still returned: without a
\* document fault extract() on a supported platform returns a record, and each
\* of its four fields is what that field resolves to on its own.
C5_SoftEmptyField ==
  (/\ pc = "done" /\ op = "extract"
   /\ ~trace.docFault
   /\ (trace.waited \/ detectPlatform(href) # "none")) =>
    /\ result # <<>>
    /\ LET r   == result[1]
           els == elements(doc)
       IN  /\ r.jobTitle = titleOf(r.platform, els)
           /\ r.company = companyOf(r.platform, els)
           /\ r.description = descriptionOf(r.platform, els)
           /\ r.location = locationOf(r.platform, els)

\* C5 witness: the title resolved to nothing, the fallback scan included, the
\* description and the location neither, and the record still carries the company.
C5_Witness ==
  /\ pc = "done" /\ op = "extract"
  /\ result # <<>>
  /\ trace.titleFallback
  /\ result[1].jobTitle = <<>>
  /\ result[1].description = <<>>
  /\ result[1].location = <<>>
  /\ result[1].company = <<"A", "c", "m", "e">>

\* C6: extractLinkedIn proceeds when the readiness waiter returns false: it runs
\* the selector resolution, the fallback scans and the keyword matching on the
\* document as it is, and returns a record, not null.
C6_SoftTimeoutProceeds ==
  (pc = "done" /\ op = "extract" /\ waitResult = "false" /\ ~trace.docFault) =>
    /\ result # <<>>
    /\ result[1] = extractBody("linkedin", doc, href, _techKeywordsLower).record
    /\ result[1].jobTitle = titleOf("linkedin", elements(doc))
    /\ result[1].description = descriptionOf("linkedin", elements(doc))

\* C6 witness: the waiter gave up, and the record has a title and a description
\* from the fallback scans and a tech stack.
C6_Witness ==
  /\ pc = "done" /\ op = "extract" /\ waitResult = "false"
  /\ result # <<>>
  /\ trace.titleFallback /\ trace.descFallback
  /\ result[1].jobTitle # <<>>
  /\ result[1].description # <<>>
  /\ result[1].techStack # <<>>

\* C7: in extractLinkedIn the fallback scan for the title (the description) runs
\* if and only if the selector resolver returned the empty string for that
\* field; when the resolver returned text the field is that text, and company
\* and location are the resolver's results; the other extractors scan nothing.
C7_FallbackOnlyWhenEmpty ==
  (pc = "done" /\ op = "extract" /\ result # <<>>) =>
    LET r   == result[1]
        els == elements(doc)
    IN  IF r.platform = "linkedin"
        THEN /\ trace.titleFallback <=> (_trySelectors(jobTitleSelectors, els) = <<>>)
             /\ trace.descFallback <=> (_trySelectors(descriptionSelectors, els) = <<>>)
             /\ ~trace.titleFallback => r.jobTitle = _trySelectors(jobTitleSelectors, els)
             /\ ~trace.descFallback => r.description = _trySelectors(descriptionSelectors, els)
             /\ r.company = _trySelectors(companySelectors, els)
             /\ r.location = _trySelectors(locationSelectors, els)
        ELSE ~trace.titleFallback /\ ~trace.descFallback

\* C7 witness: the resolver found the title, so no title scan ran although a
\* heading that the scan would score is there; the description came from the scan.
C7_Witness ==
  /\ pc = "done" /\ op = "extract" /\ result # <<>>
  /\ result[1].platform = "linkedin"
  /\ ~trace.titleFallback /\ trace.descFallback
  /\ result[1].jobTitle = <<"S", "e", "n", "i", "o", "r", " ", "B", "a", "c", "k", "e", "n", "d", " ", "E", "n", "g", "i", "n", "e", "e", "r">>
  /\ result[1].description # <<>>

\* the canonical keywords whose lowercase form occurs in lowercase t, in list order
matched(t) ==
  SelectSeq(_techKeywords, LAMBDA k : includes(toLowerCase(t), toLowerCase(k)))

lengthPoints(n, top) ==
  IF n >= 20 /\ n <= 150 THEN 10 ELSE IF n >= 10 /\ n < top THEN 5 ELSE 0

\* K, H and N of the title score of candidate el
keywordPoints(el) ==
  IF \E i \in DOMAIN jobKeywords : includes(toLowerCase(trim(el.text)), jobKeywords[i])
  THEN 20 ELSE 0

headingPoints(el) ==
  CASE el.tag = "H1" -> 15 [] el.tag = "H2" -> 10 [] el.tag = "H3" -> 5 [] OTHER -> 0

navigationPoints(el) ==
  IF \E phrase \in {<<"l", "i", "n", "k", "e", "d", "i", "n">>, <<"s", "i", "g", "n", " ", "i", "n">>, <<"j", "o", "i", "n">>} : includes(toLowerCase(trim(el.text)), phrase)
  THEN 50 ELSE 0

\* C10 as stated: the score is L + K + H - N with L = 10 for a length in
\* [20,150], otherwise 5 for a length in [10,200), otherwise 0.
C10_TitleScoreAsStated ==
  (pc = "done" /\ op = "titleScore") =>
    ret.score = lengthPoints(Len(ret.text), 200) + keywordPoints(arg)
                  + headingPoints(arg) - navigationPoints(arg)

\* C10 amended: the score is L + K + H - N with L = 10 for a length in [20,150],
\* otherwise 5 for a length in [10,200] (200 included), otherwise 0; an H1 in the
\* first band with 'engineer' and no navigation phrase scores 45.
C10_TitleScore ==
  (pc = "done" /\ op = "titleScore") =>
    /\ ret.text = trim(arg.text)
    /\ ret.score = lengthPoints(Len(ret.text), 201) + keywordPoints(arg)
                     + headingPoints(arg) - navigationPoints(arg)
    /\ (/\ arg.tag = "H1"
        /\ Len(ret.text) >= 20 /\ Len(ret.text) <= 150
        /\ includes(toLowerCase(ret.text), <<"e", "n", "g", "i", "n", "e", "e", "r">>)
        /\ navigationPoints(arg) = 0) => ret.score = 45

\* C10 witness: an H1 of exactly 200 characters with 'Engineer' scores 5 + 20 + 15.
C10_Witness ==
  /\ pc = "done" /\ op = "titleScore"
  /\ arg.tag = "H1"
  /\ Len(ret.text) = 200
  /\ keywordPoints(arg) = 20 /\ navigationPoints(arg) = 0
  /\ ret.score = 40


\* the elements of the title scan's document
titleScanned == [i \in DOMAIN arg |-> TitlePool[arg[i]]]

\* C11: in the title fallback the candidates with score <= 0 are discarded, and
\* the title chosen is the text of a candidate of maximal score, the earliest in
\* document order among those of maximal score; with no candidate left the
\* title stays empty.
C11_TitleFallbackPicksFirstBest ==
  (pc = "done" /\ op = "titleFallback") =>
    LET els       == titleScanned
        survivors == {i \in DOMAIN els : titleScore(els[i]) > 0}
    IN  IF survivors = {} THEN ret = <<>>
        ELSE \E i \in survivors :
               /\ \A j \in survivors : titleScore(els[j]) <= titleScore(els[i])
               /\ \A j \in survivors : titleScore(els[j]) = titleScore(els[i]) => i <= j
               /\ ret = trim(els[i].text)

\* C11 witness: an H2 of score 40, then two H1 of score 45 with different
\* texts, after a paragraph of score 0; the first of the two H1 is chosen.
C11_Witness ==
  /\ pc = "done" /\ op = "titleFallback"
  /\ arg = <<3, 2, 1>>
  /\ titleScore(TitlePool[5]) = 0
  /\ titleScore(TitlePool[2]) = titleScore(TitlePool[1])
  /\ ret = <<"S", "t", "a", "f", "f", " ", "P", "l", "a", "t", "f", "o", "r", "m", " ", "D", "e", "v", "e", "l", "o", "p", "e", "r">>


\* the extracted text of each element of DescriptionPool, and its length
extractedText == [i \in DOMAIN DescriptionPool |-> trim(DescriptionPool[i].text)]

extractedLength == [i \in DOMAIN DescriptionPool |-> Len(extractedText[i])]

\* the elements of DescriptionPool that are div, article or section and whose
\* text has more than 300 and fewer than 20000 characters, none of the
\* navigation phrases of the description scan, and at most 100 lines
acceptableAsStated ==
  [i \in DOMAIN DescriptionPool |->
     /\ DescriptionPool[i].tag \in {"DIV", "ARTICLE", "SECTION"}
     /\ extractedLength[i] > 300
     /\ extractedLength[i] < 20000
     /\ \A phrase \in {<<"s", "i", "g", "n", " ", "i", "n">>, <<"j", "o", "i", "n", " ", "n", "o", "w">>, <<"m", "e", "s", "s", "a", "g", "i", "n", "g">>} : ~includes(toLowerCase(extractedText[i]), phrase)
     /\ lineCount(extractedText[i]) <= 100]

\* the positions of the scanned document that hold an acceptable element
acceptablePositions == {i \in DOMAIN arg : acceptableAsStated[arg[i]]}

\* C12: in the description fallback a div, article or section is a candidate if
\* and only if its text is longer than 300 and shorter than 20000 characters,
\* contains no navigation phrase and has at most 100 lines: the candidates kept
\* (up to five) are such elements, and all of them when there are at most five.
C12_DescriptionFilter ==
  (pc = "done" /\ op = "descriptionFallback") =>
    LET A    == acceptablePositions
        kept == ret.textElements
    IN  /\ Len(kept) = (IF Cardinality(A) < 5 THEN Cardinality(A) ELSE 5)
        /\ \A k \in DOMAIN kept : \E i \in A : kept[k] = DescriptionPool[arg[i]]
        /\ Cardinality(A) <= 5 =>
             \A i \in A : \E k \in DOMAIN kept : kept[k] = DescriptionPool[arg[i]]
        /\ (A = {}) <=> (ret.description = <<>>)

\* C12 witness: of a section of 20000 characters and an article of 19999, the
\* article alone is a candidate; 300 characters, 101 lines and 'Sign In' are
\* refused, 301 characters and 100 lines are taken.
C12_Witness ==
  /\ pc = "done" /\ op = "descriptionFallback"
  /\ arg = <<4, 3>>
  /\ ret.textElements = <<DescriptionPool[3]>>
  /\ extractedLength[4] = 20000 /\ extractedLength[3] = 19999
  /\ ~acceptableAsStated[1] /\ acceptableAsStated[2]
  /\ ~acceptableAsStated[5] /\ ~acceptableAsStated[6] /\ ~acceptableAsStated[7]
  /\ acceptableAsStated[8]
  /\ acceptableAsStated[9] /\ ~acceptableAsStated[10]
  /\ textElements(<<DescriptionPool[1], DescriptionPool[10], DescriptionPool[13]>>) = <<>>

\* C13: the description the fallback returns is the extracted (trimmed) text of
\* an accepted candidate, and no accepted candidate has a longer extracted text.
C13_LongestExtractedTextWins ==
  (pc = "done" /\ op = "descriptionFallback" /\ acceptablePositions # {}) =>
    \E i \in acceptablePositions :
      /\ ret.description = extractedText[arg[i]]
      /\ \A j \in acceptablePositions : extractedLength[arg[j]] <= Len(ret.description)


\* the rules of detectPlatform in the order stated, and those whose substring
\* occurs in address u
platformRules ==
  << [substring |-> <<"l", "i", "n", "k", "e", "d", "i", "n", ".", "c", "o", "m", "/", "j", "o", "b", "s">>, platform |-> "linkedin"],
    [substring |-> <<"b", "o", "a", "r", "d", "s", ".", "g", "r", "e", "e", "n", "h", "o", "u", "s", "e", ".", "i", "o">>, platform |-> "greenhouse"],
    [substring |-> <<"j", "o", "b", "s", ".", "l", "e", "v", "e", "r", ".", "c", "o">>, platform |-> "lever"] >>

rulesMatching(u) == {i \in DOMAIN platformRules : includes(u, platformRules[i].substring)}

\* C14: detectPlatform returns the platform of the first rule, in the order
\* 'linkedin.com/jobs', 'boards.greenhouse.io', 'jobs.lever.co', whose substring
\* occurs in the URL, and null if and only if none of the three occurs.
C14_DetectPlatformFirstMatch ==
  (pc = "done" /\ op = "detectPlatform") =>
    LET hits == rulesMatching(arg)
    IN  /\ (ret = "none") <=> (hits = {})
        /\ hits # {} =>
             \E i \in hits : /\ \A j \in hits : i <= j
                             /\ ret = platformRules[i].platform

\* C14 witness: in https://boards.greenhouse.io?ref=linkedin.com/jobs the
\* substring of the second rule comes first, both occur, and the first rule wins.
C14_Witness ==
  /\ pc = "done" /\ op = "detectPlatform"
  /\ arg = <<"h", "t", "t", "p", "s", ":", "/", "/", "b", "o", "a", "r", "d", "s", ".", "g", "r", "e", "e", "n", "h", "o", "u", "s", "e", ".", "i", "o", "?", "r", "e", "f", "=", "l", "i", "n", "k", "e", "d", "i", "n", ".", "c", "o", "m", "/", "j", "o", "b", "s">>
  /\ rulesMatching(arg) = {1, 2}
  /\ ret = "linkedin"

\* C15: for every URL that contains 'boards.greenhouse.io' detectPlatform
\* returns 'greenhouse', whatever follows the host; for a URL with none of the
\* three substrings it returns null.
C15_GreenhouseWhateverSuffix ==
  (pc = "done" /\ op = "detectPlatform") =>
    /\ includes(arg, <<"b", "o", "a", "r", "d", "s", ".", "g", "r", "e", "e", "n", "h", "o", "u", "s", "e", ".", "i", "o">>) => ret = "greenhouse"
    /\ rulesMatching(arg) = {} => ret = "none"


\* C16: when detectPlatform finds no platform, extract() returns null at once,
\* with no fault and no extraction attempted: the document is not queried (so it
\* cannot fail), the readiness waiter makes no tick and sets no timer, no
\* fallback runs and nothing of the extractor is written.
C16_NoPlatformNoExtraction ==
  [][(pc = "idle" /\ op' = "extract" /\ detectPlatform(href) = "none") =>
       /\ pc' = "done"
       /\ result' = <<>>
       /\ trace' = NoTrace
       /\ probeLog' = <<>> /\ delays' = 0 /\ attempt' = 0 /\ maxAttempts' = 0
       /\ waitResult' = "none"
       /\ UNCHANGED <<url, doc, _techKeywordsLower>>]_vars

\* C16 witness: extract() returned null at an address of no platform although
\* the document has a title the LinkedIn extractor would resolve; nothing waited.
C16_Witness ==
  /\ pc = "done" /\ op = "extract"
  /\ detectPlatform(href) = "none"
  /\ result = <<>>
  /\ ~trace.waited /\ ~trace.docFault
  /\ doc # <<>>
  /\ fieldsOfDoc["linkedin", doc].jobTitle # <<>>

\* C17: every record extract() returns has the platform that detectPlatform
\* yields for the record's url, also when the address changed during the
\* readiness wait.
C17_PlatformOfRecordUrl ==
  (pc = "done" /\ op = "extract" /\ result # <<>>) =>
    result[1].platform = detectPlatform(result[1].url)


\* C18: extract() run again on an unchanged document and address returns a
\* record equal to the first in every field (extractedAt, a clock reading, is
\* not part of the record here), on every platform, the cache filled or not
\* before the first run.
C18_ExtractIdempotent ==
  (pc = "done" /\ op = "extract" /\ arg # <<>> /\ arg[1] # <<>> /\ ~trace.docFault) =>
    result = arg[1]

\* C18 witness: the first run, on LinkedIn after a readiness wait that timed
\* out, found the cache empty and a description that names keywords; the second
\* run returned the same record.
C18_Witness ==
  /\ pc = "done" /\ op = "extract"
  /\ arg # <<>> /\ arg[1] # <<>>
  /\ result = arg[1]
  /\ result[1].platform = "linkedin"
  /\ waitResult = "false"
  /\ result[1].techStack # <<>>
  /\ _techKeywordsLower = techKeywordsMapLower


\* the variables of the extract() call that is followed
mainFrame == <<pc, op, maxAttempts, attempt, probeLog, delays, waitResult, result, trace>>

\* C19: under any interleaving of extract() and extractTechStack calls the cache
\* is null or the element-wise lowercase of _techKeywords; once set it is never
\* changed or reset; the steps of another call write nothing of this call, and
\* the record returned has the keywords of its description whatever the other
\* calls did to the cache meanwhile.
C19_CacheIntegrity ==
  /\ [](_techKeywordsLower \in {<<>>, techKeywordsMapLower})
  /\ [][_techKeywordsLower # <<>> => _techKeywordsLower' = _techKeywordsLower]_vars
  /\ [][other' # other => UNCHANGED mainFrame]_vars
  /\ []((pc = "done" /\ op = "extract" /\ result # <<>>) =>
          result[1].techStack = foundTechOfDescription[result[1].description])

\* C19 witness: a call returned a record with keywords, found by the fallback
\* scan after its wait timed out, while a second extract() call is still in
\* its readiness wait; the cache is filled.
C19_Witness ==
  /\ pc = "done" /\ op = "extract" /\ result # <<>>
  /\ waitResult = "false"
  /\ result[1].techStack # <<>>
  /\ other.pc = "sleeping" /\ other.attempt > 1
  /\ _techKeywordsLower = techKeywordsMapLower

\* a step taken, while the extract() call followed is in flight, by something
\* else: the page, the address, another call
foreignStep ==
  /\ op = "extract" /\ pc \in {"sleeping", "resume"}
  /\ UNCHANGED mainFrame
  /\ (doc' # doc \/ url' # url \/ other' # other \/ _techKeywordsLower' # _techKeywordsLower)

\* the synchronous part of an extractor run as one step on one document state
bodyInOneStep ==
  /\ (pc = "resume" /\ mainFrame' # mainFrame) =>
       /\ pc' = "done"
       /\ UNCHANGED <<url, doc>>
       /\ result' \in {<<>>, <<extractBody("linkedin", doc, href, _techKeywordsLower).record>>}
  /\ (pc = "idle" /\ op' = "extract" /\ detectPlatform(href) \in {"greenhouse", "lever"}) =>
       /\ pc' = "done"
       /\ UNCHANGED <<url, doc>>
       /\ result' \in {<<>>, <<extractBody(detectPlatform(href), doc, href,
                                           _techKeywordsLower).record>>}

\* C20 as stated: within one extract() call other events interleave only during
\* the waiter's inter-tick delay, and the resolutions, scans, keyword matching
\* and record construction are one uninterrupted step on one document state.
C20_OnlyDelayInterleaves ==
  /\ [][foreignStep => pc = "sleeping"]_vars
  /\ [][bodyInOneStep]_vars

\* C20 amended: within one extract() call other events interleave only while
\* extractLinkedIn is suspended at its await of the waiter: during an inter-tick
\* delay, or between the waiter's return and the resumption (no timer fires
\* there, but the page, the address and another call can act); the
\* resolutions, scans, keyword matching and record construction are one
\* uninterrupted step on one document state, and the record shows that state.
C20_SuspendedOnlyAtAwait ==
  /\ [][foreignStep => pc \in {"sleeping", "resume"}]_vars
  /\ [][(pc = "resume" /\ other' # other) => other.pc # "sleeping"]_vars
  /\ [][bodyInOneStep]_vars
  /\ []((pc = "done" /\ op = "extract" /\ result # <<>>) =>
          result[1] = extractBody(result[1].platform, doc, href, _techKeywordsLower).record)

\* C20 witness: the waiter returned true, the page then removed what the probe
\* had seen before extractLinkedIn resumed, and the record is that of the
\* document as it was at the resumption: no title, no description.
C20_Witness ==
  /\ pc = "done" /\ op = "extract" /\ result # <<>>
  /\ waitResult = "true"
  /\ ~isReady(pageReadiness(elements(doc)))
  /\ result[1].jobTitle = <<>>
  /\ result[1].description = <<>>
  /\ other.pc = "resume"


\* C21: every call of waitForLinkedInRender terminates, given that the timer
\* fires.  While it is suspended nothing but its own next tick moves it (no
\* cancellation); each tick is numbered one more than the last and no tick has
\* a number above maxAttempts; it suspends only after a tick at which no probe
\* held and which was not the last, so there are at most maxAttempts - 1
\* suspensions, none after the last tick and none after success.
C21_WaitTerminates ==
  /\ [](/\ Len(probeLog) <= maxAttempts
        /\ delays <= (IF maxAttempts = 0 THEN 0 ELSE maxAttempts - 1)
        /\ pc = "sleeping" =>
             /\ attempt = Len(probeLog)
             /\ attempt < maxAttempts
             /\ delays = attempt
             /\ \A i \in DOMAIN probeLog : ~probeLog[i]
        /\ (pc = "done" /\ op = "wait" /\ waitResult \in {"true", "false"}) =>
             /\ delays = (IF probeLog = <<>> THEN 0 ELSE Len(probeLog) - 1)
             /\ waitResult = "false" => Len(probeLog) = maxAttempts)
  /\ [][(pc = "sleeping" /\ mainFrame' # mainFrame) =>
          \/ /\ pc' = "sleeping"
             /\ attempt' = attempt + 1
             /\ probeLog' = Append(probeLog, FALSE)
             /\ delays' = delays + 1
             /\ UNCHANGED <<op, maxAttempts>>
          \/ /\ pc' \in {"done", "resume"}
             /\ waitResult' \in {"true", "false", "rejected"}
             /\ UNCHANGED op]_vars
  /\ (pc = "sleeping") ~> (pc \in {"done", "resume"} /\ waitResult # "none")

\* C21 witness: a call with maxAttempts = 3 on a document that never got ready
\* has returned false after 3 ticks and 2 suspensions.
C21_Witness ==
  /\ pc = "done" /\ op = "wait" /\ maxAttempts = 3
  /\ waitResult = "false"
  /\ probeLog = <<FALSE, FALSE, FALSE>>
  /\ delays = 2


\* C22: extract() on a Greenhouse or Lever address completes in the step of the
\* call, without the readiness waiter: no polling tick, no delay, no timer set;
\* a record of those platforms was never waited for.
C22_ServerRenderedNoWait ==
  /\ [][(pc = "idle" /\ op' = "extract" /\ detectPlatform(href) \in {"greenhouse", "lever"}) =>
          /\ pc' = "done"
          /\ ~trace'.waited
          /\ probeLog' = <<>>
          /\ attempt' = 0
          /\ delays' = 0
          /\ waitResult' = "none"]_vars
  /\ []((op = "extract" /\ detectPlatform(href) \in {"greenhouse", "lever"}) =>
          pc = "done" /\ ~trace.waited /\ delays = 0)
  /\ []((pc = "done" /\ op = "extract" /\ result # <<>> /\ result[1].platform # "linkedin") =>
          /\ result[1].platform \in {"greenhouse", "lever"}
          /\ ~trace.waited
          /\ delays = 0)

\* C22 witness: extract() on the Lever address returned a record with a title
\* from a document in which no readiness probe of the LinkedIn waiter holds.
C22_Witness ==
  /\ pc = "done" /\ op = "extract" /\ result # <<>>
  /\ result[1].platform = "lever"
  /\ result[1].jobTitle # <<>>
  /\ ~isReady(pageReadiness(elements(doc)))
  /\ ~trace.waited /\ delays = 0 /\ probeLog = <<>>


\* the ids of the entries of a list
idsOf(list) == {list[i].id : i \in DOMAIN list}

\* the write of a saveJob call of caller c takes effect in this step
saveTakesEffect(c) ==
  /\ calls[c].op = "saveJob"
  /\ calls[c].pc = "writing"
  /\ calls'[c].pc = "written"

persistedAsStated(text, n) ==
  IF Len(text) > n THEN SubSeq(text, 1, n) \o truncationMarker ELSE text

\* C24: when the write of saveJob(jobData) takes effect, the entry of that id
\* holds the description given if it has at most 20,000 characters, otherwise
\* its first 20,000 characters followed by the truncation marker; the same for
\* the analysis with 30,000; and when the job given is an entry already stored
\* (truncated or not), its two texts are stored as they were.
C24_TruncatedBeforePersistence ==
  [][(saveTakesEffect(1) /\ ~calls[1].readFault) =>
       LET given == calls[1].given
           entry == jobs'[findIndex(jobs', calls[1].jobData.id)]
       IN  /\ findIndex(jobs', calls[1].jobData.id) >= 1
           /\ ~falsy(given.description) =>
                textOf(entry.description) =
                  persistedAsStated(textOf(given.description), MAX_DESCRIPTION_LENGTH)
           /\ ~falsy(given.analysis) =>
                textOf(entry.analysis) =
                  persistedAsStated(textOf(given.analysis), MAX_ANALYSIS_LENGTH)
           /\ (\E i \in DOMAIN jobs : jobs[i] = given) =>
                /\ entry.description = given.description
                /\ entry.analysis = given.analysis]_vars

\* C24 witness: an entry whose description is 20,000 characters and the marker
\* (the 20,001st and later characters given are gone) and whose analysis is
\* 30,000 characters and the marker was saved again, and is stored as it was.
C24_Witness ==
  /\ calls[1].op = "saveJob" /\ calls[1].pc = "done" /\ calls[1].ret = "true"
  /\ Len(jobs) = 1
  /\ jobs[1].id = calls[1].given.id
  /\ jobs[1].updatedAt # Absent
  /\ ~falsy(jobs[1].description) /\ ~falsy(jobs[1].analysis)
  /\ textOf(jobs[1].description) =
       fill(MAX_DESCRIPTION_LENGTH - 1, "d") \o <<"e">> \o truncationMarker
  /\ textOf(jobs[1].analysis) =
       fill(MAX_ANALYSIS_LENGTH - 1, "a") \o <<"b">> \o truncationMarker
  /\ jobs[1].description = calls[1].given.description
  /\ jobs[1].analysis = calls[1].given.analysis


\* the step in which the listener answers an analyzeJob message
handlerAnswers ==
  /\ handler.pc \in {"saveJob", "saveJobAfterError"}
  /\ handler'.pc = "responded"

\* after the step the history holds the job of the message with the
\* analysis and its time under the id of the response, or, for a failed
\* analysis, with the error and without analysis, and the response is the one
\* of the outcome
handlerAnsweredAsStated ==
  IF handler.pc = "saveJobAfterError"
  THEN /\ handler'.response =
            [NoResponse EXCEPT !.success = FALSE,
                               !.error = sanitizeErrorMessage(handler.error)]
       /\ \E i \in DOMAIN jobs' :
            /\ jobs'[i].url = handler.jobData.url
            /\ jobs'[i].jobTitle = handler.jobData.jobTitle
            /\ jobs'[i].description = handler.jobData.description
            /\ jobs'[i].analysisError = analysisErrorOf(handler.error)
            /\ jobs'[i].analysis = Absent
  ELSE /\ handler'.response.success
       /\ handler'.response.analysis = handler.analysisResult.analysis
       /\ \E i \in DOMAIN jobs' :
            /\ jobs'[i].id = handler'.response.jobId
            /\ jobs'[i].url = handler.jobData.url
            /\ jobs'[i].jobTitle = handler.jobData.jobTitle
            /\ jobs'[i].description = handler.jobData.description
            /\ jobs'[i].analysis =
                 truncatedFields([handler.jobData EXCEPT
                                    !.analysis = handler.analysisResult.analysis]).analysis
            /\ jobs'[i].analyzedAt = handler.analysisResult.analyzedAt
            /\ jobs'[i].analysisError = Absent

\* C25: when handleAnalyzeJob fails (no API key, invalid key format, API error
\* or timeout) the job is still in the history afterwards, with analysisError
\* and without analysis, and the requester gets {success: false, error}; when
\* it succeeds the job is in the history with analysis and analyzedAt and the
\* jobId of the response is the id of the stored entry
C25_SavedAndAnswered ==
  [][handlerAnswers => handlerAnsweredAsStated]_vars

\* the same for the messages whose saveJob returned true and wrote an entry
\* that was not in the list before
C25_SavedAndAnsweredWhenWritten ==
  [][(/\ handlerAnswers
      /\ calls[1].ret = "true"
      /\ calls[1].pending[findIndex(calls[1].pending, calls[1].jobData.id)].updatedAt = Absent)
     => handlerAnsweredAsStated]_vars


\* the promise of the last sendMessageWithTimeout call was rejected by its timer
timedOut ==
  /\ content.settled = "rejected"
  /\ content.error = "Background script communication timeout"

\* C26: the content script waits for the background's reply at least as long
\* as the background waits for the Claude API, so an analysis the API
\* completes within FETCH_TIMEOUT is never reported as a background
\* communication timeout
C26_NoTimeoutForACompletedAnalysis ==
  (timedOut /\ content.port \in DOMAIN channel)
    => ~(channel[content.port].apiLatency < FETCH_TIMEOUT)

\* an analysis the API completes within MESSAGE_TIMEOUT is not reported as a
\* timeout
C26_NoTimeoutForAQuickAnalysis ==
  (timedOut /\ content.port \in DOMAIN channel)
    => ~(channel[content.port].apiLatency < MESSAGE_TIMEOUT)


\* the step is a click on the button
clicks == content'.clicks = content.clicks + 1

\* the click is turned away: a handling is in progress or the last accepted
\* click is less than the cooldown ago
turnedAway ==
  content.isProcessing \/ now - content.lastAnalyzeTime < RATE_LIMIT_COOLDOWN

oneMessagePerUrl ==
  \A i, j \in DOMAIN auto.sends :
    (i < j /\ auto.sends[i].url = auto.sends[j].url)
      => \E k \in i..(j - 1) : /\ auto.sends[k].url = auto.sends[j].url
                               /\ auto.sends[k].state = "failed"

\* the step sends an autoAnalyze message
autoAnalyzeSent == Len(auto'.sends) = Len(auto.sends) + 1

\* C28: for an address at most one autoAnalyze message is sent, also when
\* tabs.onUpdated fires again for it while a listener is at an await; another
\* one is sent only after a send failed and the address was unmarked
C28_OneAutoAnalyzePerUrl == []oneMessagePerUrl

\* no autoAnalyze message is sent while the setting is off, no API key is
\* stored or the history holds an analysed job of the address
C28_NoAutoAnalyzeWhenNotWanted ==
  [][autoAnalyzeSent =>
       LET sent == auto'.sends[Len(auto'.sends)]
       IN  /\ auto.autoAnalyze
           /\ ~falsy(auto.apiKey)
           /\ ~existingJob(jobs, sent.url)]_vars


\* C29: when extract() yields null, handleAnalyzeClick sends no analyzeJob
\* message and the button shows the error; a message is sent only with the
\* JobRecord extract() resolved to as its data
C29_NoMessageWithoutJobRecord ==
  [][(clicks /\ ~turnedAway) =>
       /\ content'.extracted = <<>> =>
            (channel' = channel /\ content'.button = "error")
       /\ Len(channel') = Len(channel) + 1 =>
            /\ content'.extracted # <<>>
            /\ channel'[Len(channel')].data = content'.extracted[1]]_vars


\* the id the call of caller c is about
idOfCall(c) ==
  IF calls[c].op = "saveJob" THEN calls[c].jobData.id ELSE calls[c].jobId

\* the call of caller c returned true after reading the list as it was
returnedTrue(c) ==
  /\ calls[c].op \in {"saveJob", "deleteJob"}
  /\ calls[c].pc = "done"
  /\ calls[c].ret = "true"
  /\ ~calls[c].readFault

\* the effect of the call of caller c is in the persisted list
effectPresent(c) ==
  IF calls[c].op = "saveJob"
  THEN calls[c].jobData.id \in idsOf(jobs)
  ELSE calls[c].jobId \notin idsOf(jobs)

\* C30: when two saveJob calls for different jobs, or a saveJob and a
\* deleteJob of different jobs, have both returned true, overlapping or
\* not, the effects of both are in the persisted list
C30_NoLostUpdate ==
  (returnedTrue(1) /\ returnedTrue(2) /\ idOfCall(1) # idOfCall(2))
    => (effectPresent(1) /\ effectPresent(2))

\* no two persisted jobs share an id
C30_NoSharedId ==
  \A i, j \in DOMAIN jobs : jobs[i].id = jobs[j].id => i = j

=============================================================================
